---- MODULE Spec2Model ----
(***************************************************************************)
(* Model of the meal-time scheduling core: the timeline builder            *)
(* (meal_time/services/timeline_service.py), the validation service        *)
(* (meal_time/services/validation_service.py), the recipe service's        *)
(* organize_recipes (meal_time/services/recipe_service.py) and the step     *)
(* splitter (meal_time/utils/step_splitter.py).                             *)
(*                                                                         *)
(* Instants (datetime) are whole minutes, durations (timedelta) are whole  *)
(* minutes.  An Optional[int] field is a sequence: <<>> is None, <<v>> is  *)
(* the value v.                                                            *)
(***************************************************************************)
EXTENDS Integers, Sequences, FiniteSets, TLC

\* ------------------------------------------------------------------------
\* Bounds of the model
\* ------------------------------------------------------------------------
MaxRecipes == 2
MaxSteps == 2
MaxDur == 1
MaxInstr == 2

\* ------------------------------------------------------------------------
\* Program constants (config.py)
\* ------------------------------------------------------------------------
NumRecipeColors == 8
MIN_STEP_TIME == 1
MAX_STEP_TIME == 180
MIN_PREP_TIME == 10

PREP_KEYWORDS == {"chop", "dice", "slice", "mince", "prep", "cut", "wash", "peel", "measure"}
COOKING_KEYWORDS == {"cook", "bake", "fry", "boil", "simmer", "saute", "roast", "grill", "heat"}
MULTITASK_KEYWORDS == {"bake", "simmer", "marinate", "chill", "rest", "rise", "cool"}

\* ------------------------------------------------------------------------
\* Generic helpers
\* ------------------------------------------------------------------------
None == <<>>
Some(v) == <<v>>

RECURSIVE SumSeq(_)
SumSeq(s) == IF s = <<>> THEN 0 ELSE Head(s) + SumSeq(Tail(s))

RECURSIVE Reversed(_)
Reversed(s) == IF s = <<>> THEN <<>> ELSE Append(Reversed(Tail(s)), Head(s))

SeqsUpTo(S, n) == UNION {[1..k -> S] : k \in 0..n}

\* ------------------------------------------------------------------------
\* State
\* ------------------------------------------------------------------------
VARIABLES
    tl_recipes,     \* generate_timeline: the recipes argument
    tl_target,      \* generate_timeline: the target_time argument
    tl_idx,         \* generate_timeline: next index of the for loop (1-based)
    all_steps,      \* generate_timeline: the all_steps accumulator
    tl_pc,          \* generate_timeline: "idle", "loop", "returned" or "raised"
    tl_plan,        \* generate_timeline: the returned list
    vcall,          \* ValidationService: the last call, its arguments and result
    recipes,        \* RecipeService.recipes: the recipes held by the service
    storage,        \* the recipes last written to storage_path by _save
    predictor,      \* StepTimePredictor: the minutes predict returns for a step text
    now,            \* the clock read by datetime.now()
    ocall,          \* RecipeService.organize_recipes: the last call and its outcome
    sp_steps,       \* split_recipe_steps: the steps argument
    sp_idx,         \* split_recipe_steps: next index of the for loop (1-based)
    new_steps,      \* split_recipe_steps: the new_steps accumulator
    new_step_times, \* split_recipe_steps: the new_step_times accumulator
    sp_pc,          \* split_recipe_steps: "none", "idle", "loop" or "returned"
    tvcall,         \* TimelineService.validate_timeline: the last call and its result
    xcall,          \* StepSplitter.extract_time_from_text: the last call and its result
    tl_fault,       \* the exception generate_timeline raises inside organize_recipes, or "none"
    gcall,          \* RecipeService.generate_missing_step_times: the last call
    b2_recipes,     \* a second generate_timeline call on the same service: recipes
    b2_target,      \* second call: target_time
    b2_idx,         \* second call: next index of the for loop (1-based)
    b2_all_steps,   \* second call: the all_steps accumulator
    b2_pc,          \* second call: "idle", "loop" or "returned"
    b2_plan         \* second call: the returned list

tlvars == <<tl_recipes, tl_target, tl_idx, all_steps, tl_pc, tl_plan>>
valvars == <<vcall>>
orgvars == <<recipes, storage, predictor, now, ocall>>
splitvars == <<sp_steps, sp_idx, new_steps, new_step_times, sp_pc>>
chkvars == <<tvcall, xcall>>
b2vars == <<b2_recipes, b2_target, b2_idx, b2_all_steps, b2_pc, b2_plan>>
auxvars == <<chkvars, tl_fault, gcall, b2vars>>
vars == <<tlvars, valvars, orgvars, splitvars, auxvars>>

\* ------------------------------------------------------------------------
\* Timeline builder (TimelineService)
\* ------------------------------------------------------------------------
\* A step text is modelled by the keyword it contains.
_is_prep_step(step_text) == step_text \in PREP_KEYWORDS
_is_cooking_step(step_text) == step_text \in COOKING_KEYWORDS
_can_multitask(step_text) == step_text \in MULTITASK_KEYWORDS

TimelineStep(text, duration, start_time, end_time, recipe_name, step_number, recipe_color) ==
    [text |-> text, duration |-> duration, start_time |-> start_time,
     end_time |-> end_time, recipe_name |-> recipe_name,
     step_number |-> step_number, recipe_color |-> recipe_color,
     is_prep |-> _is_prep_step(text), is_cooking |-> _is_cooking_step(text),
     can_multitask |-> _can_multitask(text), order |-> 0, time_gap |-> 0]

\* Variant of WalkBack that fills forward from the first step (the zip is not
\* reversed): the first step, not the last, ends at the target.
RECURSIVE WalkBackForward(_, _, _, _, _)
WalkBackForward(recipe, i, current_end_time, recipe_color, steps) ==
    IF i >= Len(recipe.steps) THEN steps
    ELSE LET step_number == i + 1
             step_text == recipe.steps[step_number]
             duration == recipe.step_times[step_number]
             start_time == current_end_time - duration
             timeline_step == TimelineStep(step_text, duration, start_time,
                                           current_end_time, recipe.name,
                                           step_number, recipe_color)
         IN WalkBackForward(recipe, i + 1, start_time, recipe_color,
                            <<timeline_step>> \o steps)

\* Variant of WalkBack that never moves current_end_time: every step ends at
\* the target.
RECURSIVE WalkBackNoChain(_, _, _, _, _)
WalkBackNoChain(recipe, i, current_end_time, recipe_color, steps) ==
    IF i >= Len(recipe.steps) THEN steps
    ELSE LET step_number == Len(recipe.steps) - i
             step_text == recipe.steps[step_number]
             duration == recipe.step_times[step_number]
             start_time == current_end_time - duration
             timeline_step == TimelineStep(step_text, duration, start_time,
                                           current_end_time, recipe.name,
                                           step_number, recipe_color)
         IN WalkBackNoChain(recipe, i + 1, current_end_time, recipe_color,
                            Append(steps, timeline_step))

\* The backward loop of _process_single_recipe: i is the 0-based position in
\* the reversed enumeration, steps the list built so far (last step first).
RECURSIVE WalkBack(_, _, _, _, _)
WalkBack(recipe, i, current_end_time, recipe_color, steps) ==
    IF i >= Len(recipe.steps) THEN steps
    ELSE LET step_number == Len(recipe.steps) - i
             step_text == recipe.steps[step_number]
             duration == recipe.step_times[step_number]
             start_time == current_end_time - duration
             timeline_step == TimelineStep(step_text, duration, start_time,
                                           current_end_time, recipe.name,
                                           step_number, recipe_color)
         IN WalkBack(recipe, i + 1, start_time, recipe_color,
                     Append(steps, timeline_step))

_process_single_recipe(recipe, target_time, color_index) ==
    IF recipe.steps = <<>> \/ recipe.step_times = <<>> THEN <<>>
    ELSE IF Len(recipe.steps) # Len(recipe.step_times) THEN <<>>
    ELSE Reversed(WalkBack(recipe, 0, target_time,
                           color_index % NumRecipeColors, <<>>))

\* Variant of InsertByStart whose sort key is end_time.
RECURSIVE InsertByEnd(_, _)
InsertByEnd(sorted, x) ==
    IF sorted = <<>> THEN <<x>>
    ELSE IF Head(sorted).end_time <= x.end_time
         THEN <<Head(sorted)>> \o InsertByEnd(Tail(sorted), x)
         ELSE <<x>> \o sorted

\* sorted(all_steps, key=lambda x: x.start_time): a stable sort.
RECURSIVE InsertByStart(_, _)
InsertByStart(sorted, x) ==
    IF sorted = <<>> THEN <<x>>
    ELSE IF Head(sorted).start_time <= x.start_time
         THEN <<Head(sorted)>> \o InsertByStart(Tail(sorted), x)
         ELSE <<x>> \o sorted

RECURSIVE SortedByStartTime(_)
SortedByStartTime(steps) ==
    IF steps = <<>> THEN <<>>
    ELSE InsertByStart(SortedByStartTime(SubSeq(steps, 1, Len(steps) - 1)),
                       steps[Len(steps)])

_add_timeline_metadata(steps) ==
    [i \in 1..Len(steps) |->
        [steps[i] EXCEPT !.order = i,
                         !.time_gap = IF i > 1
                                      THEN steps[i].start_time - steps[i - 1].end_time
                                      ELSE 0]]

\* The for loop of generate_timeline from the idx-th recipe on.
RECURSIVE ProcessAll(_, _, _, _)
ProcessAll(rs, target_time, idx, steps) ==
    IF idx > Len(rs) THEN steps
    ELSE ProcessAll(rs, target_time, idx + 1,
                    steps \o _process_single_recipe(rs[idx], target_time, idx - 1))

\* generate_timeline as one call (the form organize_recipes uses).
generate_timeline(rs, target_time) ==
    IF rs = <<>> THEN <<>>
    ELSE _add_timeline_metadata(SortedByStartTime(ProcessAll(rs, target_time, 1, <<>>)))

Min(S) == CHOOSE x \in S : \A y \in S : x <= y

\* Variant of OverlapIssues without the test on the recipe names.
RECURSIVE OverlapIssuesAnyRecipe(_, _, _)
OverlapIssuesAnyRecipe(active, i, j) ==
    IF i > Len(active) THEN <<>>
    ELSE IF j > Len(active) THEN OverlapIssuesAnyRecipe(active, i + 1, i + 2)
    ELSE (IF /\ active[i].start_time < active[j].end_time
             /\ active[j].start_time < active[i].end_time
          THEN <<[type |-> "overlapping_active_steps", severity |-> "warning",
                  recipe1 |-> active[i].recipe_name,
                  recipe2 |-> active[j].recipe_name, minutes_past |-> 0]>>
          ELSE <<>>) \o OverlapIssuesAnyRecipe(active, i, j + 1)

\* validate_timeline: the issues are the past-start error, then one warning
\* per overlapping pair of active cooking steps of different recipes.
RECURSIVE OverlapIssues(_, _, _)
OverlapIssues(active, i, j) ==
    IF i > Len(active) THEN <<>>
    ELSE IF j > Len(active) THEN OverlapIssues(active, i + 1, i + 2)
    ELSE (IF /\ active[i].start_time < active[j].end_time
             /\ active[j].start_time < active[i].end_time
             /\ active[i].recipe_name # active[j].recipe_name
          THEN <<[type |-> "overlapping_active_steps", severity |-> "warning",
                  recipe1 |-> active[i].recipe_name,
                  recipe2 |-> active[j].recipe_name, minutes_past |-> 0]>>
          ELSE <<>>) \o OverlapIssues(active, i, j + 1)

\* Variant of validate_timeline in which any issue, warnings included, makes
\* the result invalid.
validate_timeline_WarningsInvalidate(steps, current_time) ==
    IF steps = <<>> THEN [valid |-> TRUE, issues |-> <<>>]
    ELSE LET earliest_start == Min({steps[i].start_time : i \in 1..Len(steps)})
             past == IF earliest_start <= current_time
                     THEN <<[type |-> "past_start_time", severity |-> "error",
                             recipe1 |-> "", recipe2 |-> "",
                             minutes_past |-> current_time - earliest_start]>>
                     ELSE <<>>
             active_cooking_steps ==
                 SelectSeq(steps, LAMBDA st : st.is_cooking /\ ~st.can_multitask)
             issues == past \o OverlapIssues(active_cooking_steps, 1, 2)
         IN [valid |-> issues = <<>>, issues |-> issues]

validate_timeline(steps, current_time) ==
    IF steps = <<>> THEN [valid |-> TRUE, issues |-> <<>>]
    ELSE LET earliest_start == Min({steps[i].start_time : i \in 1..Len(steps)})
             past == IF earliest_start <= current_time
                     THEN <<[type |-> "past_start_time", severity |-> "error",
                             recipe1 |-> "", recipe2 |-> "",
                             minutes_past |-> current_time - earliest_start]>>
                     ELSE <<>>
             active_cooking_steps ==
                 SelectSeq(steps, LAMBDA st : st.is_cooking /\ ~st.can_multitask)
             issues == past \o OverlapIssues(active_cooking_steps, 1, 2)
         IN [valid |-> \A i \in 1..Len(issues) : issues[i].severity # "error",
             issues |-> issues]

\* generate_timeline, one action per statement group.
TimelineReturnEmpty ==
    /\ tl_pc = "idle"
    /\ tl_recipes = <<>>
    /\ tl_plan' = <<>>
    /\ tl_pc' = "returned"
    /\ UNCHANGED <<tl_recipes, tl_target, tl_idx, all_steps, valvars, orgvars, splitvars, auxvars>>

TimelineEnterLoop ==
    /\ tl_pc = "idle"
    /\ tl_recipes # <<>>
    /\ all_steps' = <<>>
    /\ tl_idx' = 1
    /\ tl_pc' = "loop"
    /\ UNCHANGED <<tl_recipes, tl_target, tl_plan, valvars, orgvars, splitvars, auxvars>>

TimelineProcessRecipe ==
    /\ tl_pc = "loop"
    /\ tl_idx <= Len(tl_recipes)
    /\ all_steps' = all_steps \o
                    _process_single_recipe(tl_recipes[tl_idx], tl_target, tl_idx - 1)
    /\ tl_idx' = tl_idx + 1
    /\ UNCHANGED <<tl_recipes, tl_target, tl_pc, tl_plan, valvars, orgvars, splitvars, auxvars>>

TimelineSortAndReturn ==
    /\ tl_pc = "loop"
    /\ tl_idx > Len(tl_recipes)
    /\ tl_plan' = _add_timeline_metadata(SortedByStartTime(all_steps))
    /\ tl_pc' = "returned"
    /\ UNCHANGED <<tl_recipes, tl_target, tl_idx, all_steps, valvars, orgvars, splitvars, auxvars>>

\* Inputs of a timeline build.
TimelineRecipe(name, steps, step_times) ==
    [name |-> name, ingredients |-> <<"x">>, steps |-> steps,
     prep_time |-> None, cook_time |-> None, total_time |-> None,
     step_times |-> step_times]

\* Durations of the input recipes: zero and the largest duration.
Durations == {0, MaxDur}

\* A recipe's shape: its number of steps and its step_times, of equal lengths
\* or one apart.
RecipeShapes ==
    {sh \in (0..MaxSteps) \X SeqsUpTo(Durations, MaxSteps) :
        sh[1] - Len(sh[2]) \in {-1, 0, 1}}

RecipeNameSeq == <<"A", "B", "C">>
NameAt(i) == RecipeNameSeq[((i - 1) % Len(RecipeNameSeq)) + 1]

\* The text of step k of the i-th recipe (one keyword per step).
StepTextSeq == <<"chop", "fry", "bake", "mix">>
StepsFor(i, n) == [k \in 1..n |-> StepTextSeq[((i + k) % Len(StepTextSeq)) + 1]]

TimelineInput(sh) ==
    [i \in 1..Len(sh) |-> TimelineRecipe(NameAt(i), StepsFor(i, sh[i][1]), sh[i][2])]

Targets == {100, 101}

TimelineIdle ==
    /\ tl_recipes = <<>>
    /\ tl_target = 0
    /\ tl_idx = 0
    /\ all_steps = <<>>
    /\ tl_pc = "idle"
    /\ tl_plan = <<>>

ValidationIdle == vcall = [op |-> "none"]

OrganizeIdle ==
    /\ recipes = <<>>
    /\ storage = <<>>
    /\ predictor = "none"
    /\ now = 0
    /\ ocall = [outcome |-> "none"]

CheckIdle == tvcall = [op |-> "none"] /\ xcall = [op |-> "none"]

Build2Idle ==
    /\ b2_recipes = <<>>
    /\ b2_target = 0
    /\ b2_idx = 0
    /\ b2_all_steps = <<>>
    /\ b2_pc = "idle"
    /\ b2_plan = <<>>

AuxIdle == CheckIdle /\ tl_fault = "none" /\ gcall = [op |-> "none"] /\ Build2Idle

SplitIdle ==
    /\ sp_steps = <<>>
    /\ sp_idx = 0
    /\ new_steps = <<>>
    /\ new_step_times = <<>>
    /\ sp_pc = "none"

TimelineInit ==
    /\ AuxIdle
    /\ SplitIdle
    /\ ValidationIdle
    /\ OrganizeIdle
    /\ \E k \in 0..MaxRecipes : \E sh \in [1..k -> RecipeShapes] :
          tl_recipes = TimelineInput(sh)
    /\ tl_target \in Targets
    /\ tl_idx = 0
    /\ all_steps = <<>>
    /\ tl_pc = "idle"
    /\ tl_plan = <<>>

TimelineNext ==
    \/ TimelineReturnEmpty
    \/ TimelineEnterLoop
    \/ TimelineProcessRecipe
    \/ TimelineSortAndReturn

SpecTimeline == TimelineInit /\ [][TimelineNext]_vars

\* Two generate_timeline calls on one TimelineService, running at the same
\* time.  The second call has the statements of the first on its own locals;
\* the service itself holds only its Config, which neither call writes.
Timeline2ReturnEmpty ==
    /\ b2_pc = "idle"
    /\ b2_recipes = <<>>
    /\ b2_plan' = <<>>
    /\ b2_pc' = "returned"
    /\ UNCHANGED <<b2_recipes, b2_target, b2_idx, b2_all_steps, tlvars, valvars,
                   orgvars, splitvars, chkvars, tl_fault, gcall>>

Timeline2EnterLoop ==
    /\ b2_pc = "idle"
    /\ b2_recipes # <<>>
    /\ b2_all_steps' = <<>>
    /\ b2_idx' = 1
    /\ b2_pc' = "loop"
    /\ UNCHANGED <<b2_recipes, b2_target, b2_plan, tlvars, valvars,
                   orgvars, splitvars, chkvars, tl_fault, gcall>>

\* Variant of Timeline2ProcessRecipe in which all_steps belongs to the
\* service: the second call extends the list of the first.
Timeline2ProcessRecipeShared ==
    /\ b2_pc = "loop"
    /\ b2_idx <= Len(b2_recipes)
    /\ all_steps' = all_steps \o
                    _process_single_recipe(b2_recipes[b2_idx], b2_target, b2_idx - 1)
    /\ b2_idx' = b2_idx + 1
    /\ UNCHANGED <<b2_recipes, b2_target, b2_pc, b2_plan, b2_all_steps,
                   tl_recipes, tl_target, tl_idx, tl_pc, tl_plan, valvars,
                   orgvars, splitvars, chkvars, tl_fault, gcall>>

Timeline2ProcessRecipe ==
    /\ b2_pc = "loop"
    /\ b2_idx <= Len(b2_recipes)
    /\ b2_all_steps' = b2_all_steps \o
                       _process_single_recipe(b2_recipes[b2_idx], b2_target, b2_idx - 1)
    /\ b2_idx' = b2_idx + 1
    /\ UNCHANGED <<b2_recipes, b2_target, b2_pc, b2_plan, tlvars, valvars,
                   orgvars, splitvars, chkvars, tl_fault, gcall>>

Timeline2SortAndReturn ==
    /\ b2_pc = "loop"
    /\ b2_idx > Len(b2_recipes)
    /\ b2_plan' = _add_timeline_metadata(SortedByStartTime(b2_all_steps))
    /\ b2_pc' = "returned"
    /\ UNCHANGED <<b2_recipes, b2_target, b2_idx, b2_all_steps, tlvars, valvars,
                   orgvars, splitvars, chkvars, tl_fault, gcall>>

\* Inputs of the two calls: up to MaxBuild recipes each, a recipe having all
\* its durations, one step with one duration, or a step without duration.
MaxBuild == 2
BuildShapes ==
    {<<MaxSteps, [k \in 1..MaxSteps |-> MaxDur]>>, <<1, <<MaxDur>>>>, <<1, <<>>>>}

TwoBuildsInit ==
    /\ ValidationIdle
    /\ OrganizeIdle
    /\ SplitIdle
    /\ CheckIdle
    /\ tl_fault = "none"
    /\ gcall = [op |-> "none"]
    /\ \E k \in 0..MaxBuild : \E sh \in [1..k -> BuildShapes] :
          tl_recipes = TimelineInput(sh)
    /\ \E k \in 0..MaxBuild : \E sh \in [1..k -> BuildShapes] :
          b2_recipes = TimelineInput(sh)
    /\ tl_target \in Targets
    /\ b2_target \in Targets
    /\ tl_idx = 0 /\ b2_idx = 0
    /\ all_steps = <<>> /\ b2_all_steps = <<>>
    /\ tl_pc = "idle" /\ b2_pc = "idle"
    /\ tl_plan = <<>> /\ b2_plan = <<>>

TwoBuildsNext ==
    \/ TimelineReturnEmpty
    \/ TimelineEnterLoop
    \/ TimelineProcessRecipe
    \/ TimelineSortAndReturn
    \/ Timeline2ReturnEmpty
    \/ Timeline2EnterLoop
    \/ Timeline2ProcessRecipe
    \/ Timeline2SortAndReturn

SpecTwoBuilds == TwoBuildsInit /\ [][TwoBuildsNext]_vars

\* Plans given to validate_timeline.  A step is a TimelineStep of one of two
\* recipes; its text makes it active cooking ("fry"), cooking that can
\* multitask ("bake") or preparation ("chop").
MaxPlan == 2
PlanTexts == {"fry", "bake", "chop"}
PlanStarts == {100, 101}
PlanDurations == {0, 1, 2}
PlanNames == {"A", "B"}
PlanClock == {99, 100, 101}

PlanStepSamples ==
    {TimelineStep(text, duration, start_time, start_time + duration, name, 1, 0) :
        text \in PlanTexts, duration \in PlanDurations,
        start_time \in PlanStarts, name \in PlanNames}

CallValidateTimeline ==
    /\ tvcall.op = "none"
    /\ \E k \in 0..MaxPlan : \E steps \in [1..k -> PlanStepSamples] :
       \E current_time \in PlanClock :
          tvcall' = [op |-> "validate_timeline",
                     steps |-> steps,
                     current_time |-> current_time,
                     result |-> validate_timeline(steps, current_time)]
    /\ UNCHANGED <<tlvars, valvars, orgvars, splitvars, xcall, tl_fault, gcall, b2vars>>

TimelineCheckInit ==
    /\ TimelineIdle
    /\ ValidationIdle
    /\ OrganizeIdle
    /\ SplitIdle
    /\ AuxIdle

TimelineCheckNext == CallValidateTimeline

SpecTimelineCheck == TimelineCheckInit /\ [][TimelineCheckNext]_vars

\* ------------------------------------------------------------------------
\* Validation service (ValidationService)
\* ------------------------------------------------------------------------
\* Truth value of an Optional[int] in a Python condition: None and 0 are false.
Truthy(opt) == opt # None /\ opt[1] # 0

\* (a - b).total_seconds() / 60 for instants that are whole minutes.
MinutesBetween(a, b) == a - b

DayMinutes == 24 * 60

ERR_TARGET_PAST == "Target time must be in the future"
WARN_TIGHT_TIMING == "Very tight timing"
WARN_FAR_AWAY == "Target time is more than 24 hours away"
ERR_NEED_MORE == "Need more minutes to complete all recipes"
WARN_TIGHT_TIMELINE == "Timeline will be very tight"

\* Variant of validate_target_time that accepts a target equal to now.
validate_target_time_AcceptsNow(target_time, current_time) ==
    IF target_time < current_time
    THEN [valid |-> FALSE, warnings |-> <<>>, errors |-> <<ERR_TARGET_PAST>>]
    ELSE LET time_diff == MinutesBetween(target_time, current_time)
             tight == IF time_diff < MIN_PREP_TIME THEN <<WARN_TIGHT_TIMING>> ELSE <<>>
             far == IF time_diff > DayMinutes THEN <<WARN_FAR_AWAY>> ELSE <<>>
         IN [valid |-> TRUE, warnings |-> tight \o far, errors |-> <<>>]

validate_target_time(target_time, current_time) ==
    IF target_time <= current_time
    THEN [valid |-> FALSE, warnings |-> <<>>, errors |-> <<ERR_TARGET_PAST>>]
    ELSE LET time_diff == MinutesBetween(target_time, current_time)
             tight == IF time_diff < MIN_PREP_TIME THEN <<WARN_TIGHT_TIMING>> ELSE <<>>
             far == IF time_diff > DayMinutes THEN <<WARN_FAR_AWAY>> ELSE <<>>
         IN [valid |-> TRUE, warnings |-> tight \o far, errors |-> <<>>]

Max(a, b) == IF a >= b THEN a ELSE b

\* The for loop of estimate_total_time_needed from the i-th recipe on.
RECURSIVE EstimateLoop(_, _, _)
EstimateLoop(rs, i, max_total_time) ==
    IF i > Len(rs) THEN max_total_time
    ELSE LET recipe == rs[i]
         IN IF Truthy(recipe.total_time)
            THEN EstimateLoop(rs, i + 1, Max(max_total_time, recipe.total_time[1]))
            ELSE IF Truthy(recipe.prep_time) /\ Truthy(recipe.cook_time)
            THEN EstimateLoop(rs, i + 1,
                              Max(max_total_time,
                                  recipe.prep_time[1] + recipe.cook_time[1]))
            ELSE IF recipe.step_times # <<>>
            THEN EstimateLoop(rs, i + 1, Max(max_total_time, SumSeq(recipe.step_times)))
            ELSE EstimateLoop(rs, i + 1, max_total_time)

estimate_total_time_needed(rs) == EstimateLoop(rs, 1, 0)

\* time_needed > time_available * WARNING_THRESHOLD, with the threshold 0.8
\* written as the fraction 8 / 10.
WARNING_THRESHOLD_NUM == 8
WARNING_THRESHOLD_DEN == 10
AboveWarningThreshold(time_needed, time_available) ==
    time_needed * WARNING_THRESHOLD_DEN > time_available * WARNING_THRESHOLD_NUM

\* Variant of validate_timeline_feasibility whose warning test is a separate
\* "if" instead of the "elif".
validate_timeline_feasibility_IfNotElif(rs, target_time, current_time) ==
    LET time_available == MinutesBetween(target_time, current_time)
        time_needed == estimate_total_time_needed(rs)
        short == time_needed > time_available
    IN [feasible |-> ~short,
        warnings |-> IF AboveWarningThreshold(time_needed, time_available)
                     THEN <<WARN_TIGHT_TIMELINE>> ELSE <<>>,
        errors |-> IF short
                   THEN <<[msg |-> ERR_NEED_MORE,
                           shortage |-> time_needed - time_available]>>
                   ELSE <<>>,
        time_needed |-> time_needed,
        time_available |-> time_available]

validate_timeline_feasibility(rs, target_time, current_time) ==
    LET time_available == MinutesBetween(target_time, current_time)
        time_needed == estimate_total_time_needed(rs)
        short == time_needed > time_available
    IN [feasible |-> ~short,
        warnings |-> IF ~short /\ AboveWarningThreshold(time_needed, time_available)
                     THEN <<WARN_TIGHT_TIMELINE>> ELSE <<>>,
        errors |-> IF short
                   THEN <<[msg |-> ERR_NEED_MORE,
                           shortage |-> time_needed - time_available]>>
                   ELSE <<>>,
        time_needed |-> time_needed,
        time_available |-> time_available]

ISSUE_NAME == "Recipe name is required"
ISSUE_NO_STEPS == "Recipe must have at least one step"
ISSUE_NO_INGREDIENTS == "Recipe must have at least one ingredient"
ISSUE_TIMES_MISMATCH == "Number of step times must match number of steps"
ISSUE_TIME_TOO_SHORT == "Step times must be at least MIN_STEP_TIME minute(s)"
ISSUE_TIME_TOO_LONG == "Step times must be less than MAX_STEP_TIME minutes"
ISSUE_PREP_NEGATIVE == "Prep time cannot be negative"
ISSUE_COOK_NEGATIVE == "Cook time cannot be negative"
ERR_NONE_SELECTED == "At least one recipe must be selected"
ERR_NOT_FOUND == "Recipe not found"
ERR_NO_VALID == "No valid recipes selected"

\* Names that are empty or only white space.
BlankNames == {"", " "}

When(cond, issue) == IF cond THEN <<issue>> ELSE <<>>

validate_recipe(recipe) ==
    When(recipe.name \in BlankNames, ISSUE_NAME)
    \o When(recipe.steps = <<>>, ISSUE_NO_STEPS)
    \o When(recipe.ingredients = <<>>, ISSUE_NO_INGREDIENTS)
    \o (IF recipe.step_times # <<>>
        THEN When(Len(recipe.step_times) # Len(recipe.steps), ISSUE_TIMES_MISMATCH)
             \o When(\E k \in 1..Len(recipe.step_times) :
                        recipe.step_times[k] < MIN_STEP_TIME, ISSUE_TIME_TOO_SHORT)
             \o When(\E k \in 1..Len(recipe.step_times) :
                        recipe.step_times[k] > MAX_STEP_TIME, ISSUE_TIME_TOO_LONG)
        ELSE <<>>)
    \o When(Truthy(recipe.prep_time) /\ recipe.prep_time[1] < 0, ISSUE_PREP_NEGATIVE)
    \o When(Truthy(recipe.cook_time) /\ recipe.cook_time[1] < 0, ISSUE_COOK_NEGATIVE)

\* recipe_dict = {r.name: r for r in all_recipes}: the last recipe of a name wins.
InRecipeDict(all_recipes, name) ==
    \E i \in 1..Len(all_recipes) : all_recipes[i].name = name
RecipeDictGet(all_recipes, name) ==
    all_recipes[CHOOSE i \in 1..Len(all_recipes) :
                   /\ all_recipes[i].name = name
                   /\ \A j \in (i + 1)..Len(all_recipes) : all_recipes[j].name # name]

\* The for loop of validate_recipe_selection from the n-th name on.
RECURSIVE SelectionLoop(_, _, _, _)
SelectionLoop(recipe_names, all_recipes, n, result) ==
    IF n > Len(recipe_names) THEN result
    ELSE LET name == recipe_names[n]
         IN IF ~InRecipeDict(all_recipes, name)
            THEN SelectionLoop(recipe_names, all_recipes, n + 1,
                    [result EXCEPT
                        !.invalid_recipes = Append(@, name),
                        !.errors = Append(@, [msg |-> ERR_NOT_FOUND, recipe |-> name])])
            ELSE LET recipe == RecipeDictGet(all_recipes, name)
                     recipe_issues == validate_recipe(recipe)
                 IN IF recipe_issues # <<>>
                    THEN SelectionLoop(recipe_names, all_recipes, n + 1,
                            [result EXCEPT
                                !.invalid_recipes = Append(@, name),
                                !.errors = @ \o [k \in 1..Len(recipe_issues) |->
                                                   [msg |-> recipe_issues[k],
                                                    recipe |-> name]]])
                    ELSE SelectionLoop(recipe_names, all_recipes, n + 1,
                            [result EXCEPT !.valid_recipes = Append(@, recipe)])

\* Variant of validate_recipe_selection that leaves the result valid when no
\* valid recipe remains after the loop.
validate_recipe_selection_KeepsValid(recipe_names, all_recipes) ==
    LET result == [valid |-> TRUE, warnings |-> <<>>, errors |-> <<>>,
                   valid_recipes |-> <<>>, invalid_recipes |-> <<>>]
    IN IF recipe_names = <<>>
       THEN [result EXCEPT !.valid = FALSE,
                           !.errors = <<[msg |-> ERR_NONE_SELECTED, recipe |-> ""]>>]
       ELSE SelectionLoop(recipe_names, all_recipes, 1, result)

validate_recipe_selection(recipe_names, all_recipes) ==
    LET result == [valid |-> TRUE, warnings |-> <<>>, errors |-> <<>>,
                   valid_recipes |-> <<>>, invalid_recipes |-> <<>>]
    IN IF recipe_names = <<>>
       THEN [result EXCEPT !.valid = FALSE,
                           !.errors = <<[msg |-> ERR_NONE_SELECTED, recipe |-> ""]>>]
       ELSE LET looped == SelectionLoop(recipe_names, all_recipes, 1, result)
            IN IF looped.valid_recipes = <<>>
               THEN [looped EXCEPT !.valid = FALSE,
                                   !.errors = Append(@, [msg |-> ERR_NO_VALID,
                                                         recipe |-> ""])]
               ELSE looped

\* Inputs of the validation calls.
MaxField == 1
CurrentTimes == {1000}
TargetGaps == {-1, 0, 1, MIN_PREP_TIME - 1, MIN_PREP_TIME, MIN_PREP_TIME + 1,
               DayMinutes, DayMinutes + 1}
AvailableGaps == (-1)..(MaxSteps * MaxDur + 2)

TotalTimeSamples == {None, Some(0), Some(MaxField)}
PrepCookSamples == {<<None, None>>, <<Some(0), Some(MaxField)>>,
                    <<Some(1), Some(MaxField)>>, <<Some(MaxField), None>>}
StepTimeSamples == {<<>>, [k \in 1..MaxSteps |-> MaxDur]}
ValidationShapes == TotalTimeSamples \X PrepCookSamples \X StepTimeSamples

ValidationRecipe(i, sh) ==
    [name |-> NameAt(i), ingredients |-> <<"x">>,
     steps |-> StepsFor(i, Len(sh[3])),
     prep_time |-> sh[2][1], cook_time |-> sh[2][2], total_time |-> sh[1],
     step_times |-> sh[3]]

ValidationInput(sh) == [i \in 1..Len(sh) |-> ValidationRecipe(i, sh[i])]

CallValidateTargetTime ==
    /\ vcall.op = "none"
    /\ \E current_time \in CurrentTimes, gap \in TargetGaps :
          vcall' = [op |-> "validate_target_time",
                    recipes |-> <<>>,
                    target_time |-> current_time + gap,
                    current_time |-> current_time,
                    result |-> validate_target_time(current_time + gap, current_time)]
    /\ UNCHANGED <<tlvars, orgvars, splitvars, auxvars>>

CallEstimateTotalTimeNeeded ==
    /\ vcall.op = "none"
    /\ \E k \in 0..MaxRecipes : \E sh \in [1..k -> ValidationShapes] :
          vcall' = [op |-> "estimate_total_time_needed",
                    recipes |-> ValidationInput(sh),
                    target_time |-> 0,
                    current_time |-> 0,
                    result |-> estimate_total_time_needed(ValidationInput(sh))]
    /\ UNCHANGED <<tlvars, orgvars, splitvars, auxvars>>

CallValidateTimelineFeasibility ==
    /\ vcall.op = "none"
    /\ \E k \in 0..MaxRecipes : \E sh \in [1..k -> ValidationShapes] :
       \E current_time \in CurrentTimes, gap \in AvailableGaps :
          vcall' = [op |-> "validate_timeline_feasibility",
                    recipes |-> ValidationInput(sh),
                    target_time |-> current_time + gap,
                    current_time |-> current_time,
                    result |-> validate_timeline_feasibility(
                                  ValidationInput(sh), current_time + gap, current_time)]
    /\ UNCHANGED <<tlvars, orgvars, splitvars, auxvars>>

\* organize_recipes, lines 179-195, with one reading of the clock: the
\* feasibility check, then the timeline and its validation
CallFeasibilityThenTimeline ==
    /\ vcall.op = "none"
    /\ \E k \in 0..MaxRecipes : \E sh \in [1..k -> ValidationShapes] :
       \E current_time \in CurrentTimes, gap \in AvailableGaps :
          LET timeline_steps == generate_timeline(ValidationInput(sh), current_time + gap)
          IN  vcall' = [op |-> "feasibility_then_timeline",
                        recipes |-> ValidationInput(sh),
                        target_time |-> current_time + gap,
                        current_time |-> current_time,
                        result |-> validate_timeline_feasibility(
                                      ValidationInput(sh), current_time + gap, current_time),
                        timeline_steps |-> timeline_steps,
                        timeline_validation |->
                            validate_timeline(timeline_steps, current_time)]
    /\ UNCHANGED <<tlvars, orgvars, splitvars, auxvars>>

ValidationInit ==
    /\ AuxIdle
    /\ SplitIdle
    /\ TimelineIdle
    /\ ValidationIdle
    /\ OrganizeIdle

ValidationNext ==
    \/ CallValidateTargetTime
    \/ CallEstimateTotalTimeNeeded
    \/ CallValidateTimelineFeasibility
    \/ CallFeasibilityThenTimeline

SpecValidation == ValidationInit /\ [][ValidationNext]_vars

\* ------------------------------------------------------------------------
\* Recipe service (RecipeService)
\* ------------------------------------------------------------------------
\* f"{original_name} ({counter})", the name import_recipe_from_url gives a
\* recipe whose name is taken.
RenamedName(original_name, counter) ==
    original_name \o " (" \o ToString(counter) \o ")"

\* The name scrape_recipe gives a page without a title.
DEFAULT_SCRAPED_NAME == "Scraped Recipe"

\* The names with upper-case letters that are renamed, and the largest
\* counter a rename reaches.
RenamedOriginals == {"A", "B", DEFAULT_SCRAPED_NAME}

\* The calls that append are made on stores of fewer than MaxStoreSize
\* recipes, so that no rename counts further than MaxStoreSize.
MaxStoreSize == 3

LowerPlain(name) ==
    CASE name = "A" -> "a"
      [] name = "B" -> "b"
      [] name = "C" -> "c"
      [] name = DEFAULT_SCRAPED_NAME -> "scraped recipe"
      [] OTHER -> name

\* str.lower() on the renamed names: the original name in lower case,
\* followed by the same counter.
LowerRenamed ==
    [name \in {RenamedName(o, c) : o \in RenamedOriginals, c \in 1..MaxStoreSize} |->
        LET original_name == CHOOSE o \in RenamedOriginals :
                                 \E c \in 1..MaxStoreSize : name = RenamedName(o, c)
            counter == CHOOSE c \in 1..MaxStoreSize :
                           name = RenamedName(original_name, c)
        IN  RenamedName(LowerPlain(original_name), counter)]

\* str.lower() on the recipe names of the model.
Lower(name) ==
    IF name \in DOMAIN LowerRenamed THEN LowerRenamed[name] ELSE LowerPlain(name)

\* get_recipe_by_name comparing the names as they are written.
get_recipe_by_name_ExactName(rs, name) ==
    IF \E i \in 1..Len(rs) : rs[i].name = name
    THEN Some(rs[CHOOSE i \in 1..Len(rs) :
                     /\ rs[i].name = name
                     /\ \A j \in 1..(i - 1) : rs[j].name # name])
    ELSE None

\* get_recipe_by_name: the first recipe whose lower-cased name matches, or None.
get_recipe_by_name(rs, name) ==
    IF \E i \in 1..Len(rs) : Lower(rs[i].name) = Lower(name)
    THEN Some(rs[CHOOSE i \in 1..Len(rs) :
                     /\ Lower(rs[i].name) = Lower(name)
                     /\ \A j \in 1..(i - 1) : Lower(rs[j].name) # Lower(name)])
    ELSE None

\* StepTimePredictor.predict: 5 when no model is loaded, else the model's
\* value raised to at least 1.
FALLBACK_PREDICTION == 5
predict(pred, step) ==
    IF ~pred.trained THEN FALLBACK_PREDICTION ELSE Max(1, pred.raw[step])

NeedsStepTimes(recipe) ==
    recipe.step_times = <<>> \/ Len(recipe.step_times) # Len(recipe.steps)

\* generate_missing_step_times: the recipes after the loop.
generate_missing_step_times(rs, pred) ==
    [i \in 1..Len(rs) |->
        IF NeedsStepTimes(rs[i])
        THEN [rs[i] EXCEPT !.step_times =
                 [k \in 1..Len(rs[i].steps) |-> predict(pred, rs[i].steps[k])]]
        ELSE rs[i]]

\* The "reload" loop of organize_recipes (lines 172-176).
RECURSIVE ReloadLoop(_, _, _)
ReloadLoop(selected, rs, n) ==
    IF n > Len(selected) THEN <<>>
    ELSE LET updated_recipe == get_recipe_by_name(rs, selected[n].name)
         IN updated_recipe \o ReloadLoop(selected, rs, n + 1)

DEFAULT_TARGET_DELAY == 60

\* What a call leaves behind: "site" is the raise statement that ended it.
Outcome(outcome, exception, site, errors, required_start_time, plan, names, target_time, time_needed) ==
    [outcome |-> outcome, exception |-> exception, site |-> site, errors |-> errors,
     required_start_time |-> required_start_time, plan |-> plan,
     names |-> names, target_time |-> target_time, time_needed |-> time_needed]

\* The classes of exceptions.py, all subclasses of MealTimeException.
MealTimeExceptions ==
    {"MealTimeException", "RecipeNotFoundException", "InvalidRecipeException",
     "TimelineException", "ImpossibleTimingException", "StepTimePredictionException"}

\* Variant of ExceptHandler that wraps every exception.
ExceptHandlerWrapsAll(raised) ==
    [raised EXCEPT !.exception = "TimelineException", !.site = "except",
                   !.errors = <<raised.exception>>, !.required_start_time = None]

\* The except clause of organize_recipes (lines 202-206) on the outcome of a
\* raise inside the try block: a MealTimeException is re-raised, anything
\* else becomes TimelineException("Failed to generate timeline: <e>").
ExceptHandler(raised) ==
    IF raised.exception \in MealTimeExceptions THEN raised
    ELSE [raised EXCEPT !.exception = "TimelineException", !.site = "except",
                        !.errors = <<raised.exception>>, !.required_start_time = None]

\* organize_recipes(names, target_time).  The clock is read at entry (t1, for
\* the default target and validate_target_time), for the feasibility check
\* (t2) and for validate_timeline (t3).
OrganizeRecipes(names, target_arg, t2, t3) ==
    LET t1 == now
        target_time == IF target_arg = None THEN t1 + DEFAULT_TARGET_DELAY
                       ELSE target_arg[1]
        validation_result == validate_recipe_selection(names, recipes)
        time_validation == validate_target_time(target_time, t1)
        filled == generate_missing_step_times(recipes, predictor)
        changed == \E i \in 1..Len(recipes) : NeedsStepTimes(recipes[i])
        updated_recipes == ReloadLoop(validation_result.valid_recipes, filled, 1)
        feasibility == validate_timeline_feasibility(updated_recipes, target_time, t2)
        timeline_steps == generate_timeline(updated_recipes, target_time)
        timeline_validation == validate_timeline(timeline_steps, t3)
        error_issues == SelectSeq(timeline_validation.issues,
                                  LAMBDA issue : issue.severity = "error")
    IN IF ~validation_result.valid
       THEN /\ ocall' = Outcome("raised", "InvalidRecipeException", "selection",
                                validation_result.errors, None, <<>>,
                                names, target_time, 0)
            /\ now' = t1
            /\ UNCHANGED <<recipes, storage>>
       ELSE IF ~time_validation.valid
       THEN /\ ocall' = Outcome("raised", "ImpossibleTimingException", "target_time",
                                time_validation.errors, None, <<>>,
                                names, target_time, 0)
            /\ now' = t1
            /\ UNCHANGED <<recipes, storage>>
       ELSE /\ recipes' = filled
            /\ storage' = IF changed THEN filled ELSE storage
            /\ IF ~feasibility.feasible
               THEN /\ ocall' = Outcome("raised", "ImpossibleTimingException",
                                        "feasibility", feasibility.errors,
                                        Some(target_time - feasibility.time_needed),
                                        <<>>, names, target_time,
                                        feasibility.time_needed)
                    /\ now' = t2
               ELSE IF tl_fault # "none"
               THEN /\ ocall' = ExceptHandler(
                                    Outcome("raised", tl_fault, "generate_timeline",
                                            <<>>, None, <<>>, names, target_time,
                                            feasibility.time_needed))
                    /\ now' = t2
               ELSE IF ~timeline_validation.valid /\ error_issues # <<>>
               THEN /\ ocall' = ExceptHandler(
                                    Outcome("raised", "ImpossibleTimingException",
                                            "timeline", error_issues, None, <<>>,
                                            names, target_time, feasibility.time_needed))
                    /\ now' = t3
               ELSE /\ ocall' = Outcome("returned", "", "", <<>>, None, timeline_steps,
                                        names, target_time, feasibility.time_needed)
                    /\ now' = t3

\* Inputs of organize_recipes and the stores it runs on.
MaxSelect == 2
SelectableNames == {"A", "b"}
StoreNow == 1000
ClockAdvances == {0, 1}
OrganizeGaps == {0, MaxSteps * MaxDur, MaxSteps * FALLBACK_PREDICTION,
                 MaxSteps * FALLBACK_PREDICTION + 1}
OrganizeTargets == {None} \cup {Some(StoreNow + g) : g \in OrganizeGaps}

StepTextSet == {StepTextSeq[k] : k \in 1..Len(StepTextSeq)}
Predictors ==
    {[trained |-> FALSE, raw |-> [t \in StepTextSet |-> 0]],
     [trained |-> TRUE,
      raw |-> [t \in StepTextSet |-> IF t \in COOKING_KEYWORDS THEN 2 ELSE 0]]}

\* Stored recipes: <<ingredients, number of steps, step_times, total_time>>.
FullTimes == [k \in 1..MaxSteps |-> MaxDur]
StoreShapes ==
    {<<<<"x">>, MaxSteps, FullTimes, None>>,
     <<<<"x">>, MaxSteps, FullTimes, Some(MaxField)>>,
     <<<<"x">>, MaxSteps, <<>>, None>>,
     <<<<"x">>, MaxSteps, <<MaxDur>>, None>>,
     <<<<"x">>, 1, <<0>>, None>>,
     <<<<"x">>, 0, <<>>, None>>}

StoreRecipe(i, sh) ==
    [name |-> NameAt(i), ingredients |-> sh[1], steps |-> StepsFor(i, sh[2]),
     prep_time |-> None, cook_time |-> None, total_time |-> sh[4],
     step_times |-> sh[3]]

MaxStore == 2

CallOrganizeRecipes ==
    /\ ocall.outcome = "none"
    /\ gcall.op = "none"
    /\ \E names \in SeqsUpTo(SelectableNames, MaxSelect), target_arg \in OrganizeTargets :
       \E d1 \in ClockAdvances, d2 \in ClockAdvances :
          OrganizeRecipes(names, target_arg, now + d1, now + d1 + d2)
    /\ UNCHANGED <<tlvars, valvars, predictor, splitvars, auxvars>>

\* What generate_timeline raises when organize_recipes calls it: nothing, or
\* an exception that is not a MealTimeException (timedelta raises ValueError
\* for a duration that is NaN, which the checks before the try block let pass).
TimelineFaults == {"none", "ValueError"}

\* generate_missing_step_times called on the store: "before" keeps the
\* recipes the call started from.
CallGenerateMissingStepTimes ==
    /\ ocall.outcome = "none"
    /\ gcall.op = "none"
    /\ recipes' = generate_missing_step_times(recipes, predictor)
    /\ storage' = IF \E i \in 1..Len(recipes) : NeedsStepTimes(recipes[i])
                  THEN recipes' ELSE storage
    /\ gcall' = [op |-> "generate_missing_step_times", before |-> recipes]
    /\ UNCHANGED <<predictor, now, ocall, tlvars, valvars, splitvars, chkvars, tl_fault, b2vars>>

\* get_timeline_summary; recipe_list is list(set(step.recipe_name for step
\* in steps)), a list of the distinct names in the order the set yields them
get_timeline_summary(steps, target_time, recipe_list) ==
    IF steps = <<>>
    THEN [total_time |-> 0, start_time |-> None, end_time |-> None,
          recipes |-> <<>>, total_steps |-> 0, prep_steps |-> 0,
          cooking_steps |-> 0, multitask_opportunities |-> 0]
    ELSE LET start_time == Min({steps[i].start_time : i \in 1..Len(steps)}) IN
         [total_time |-> target_time - start_time,
          start_time |-> Some(start_time),
          end_time |-> Some(target_time),
          recipes |-> recipe_list,
          total_steps |-> Len(steps),
          prep_steps |-> Cardinality({i \in 1..Len(steps) : steps[i].is_prep}),
          cooking_steps |-> Cardinality({i \in 1..Len(steps) : steps[i].is_cooking}),
          multitask_opportunities |->
              Cardinality({i \in 1..Len(steps) : steps[i].can_multitask})]

\* The lists that list(set(names)) can be: the iteration order of a set of
\* strings depends on their hashes, which change from one run to the next.
ListsOfSet(S) ==
    {q \in [1..Cardinality(S) -> S] : \A i, j \in 1..Cardinality(S) : q[i] = q[j] => i = j}

\* get_cooking_summary(names, target_time) at time t1
CallGetCookingSummary ==
    /\ ocall.outcome = "none"
    /\ gcall.op = "none"
    /\ \E names \in SeqsUpTo({NameAt(i) : i \in 1..MaxStore}, MaxSelect),
          target_arg \in OrganizeTargets, d1 \in ClockAdvances :
        LET t1 == now + d1
            target_time == IF Truthy(target_arg) THEN target_arg[1]
                           ELSE t1 + DEFAULT_TARGET_DELAY
            validation_result == validate_recipe_selection(names, recipes)
            timeline_steps ==
                generate_timeline(validation_result.valid_recipes, target_time)
        IN  /\ now' = t1
            /\ IF ~validation_result.valid \/ tl_fault # "none"
               THEN gcall' = [op |-> "get_cooking_summary", names |-> names,
                              plan |-> <<>>,
                              summary |-> get_timeline_summary(<<>>, target_time, <<>>)]
               ELSE \E order \in ListsOfSet({timeline_steps[i].recipe_name :
                                                 i \in 1..Len(timeline_steps)}) :
                       gcall' = [op |-> "get_cooking_summary", names |-> names,
                                 plan |-> timeline_steps,
                                 summary |-> get_timeline_summary(
                                     timeline_steps, target_time, order)]
    /\ UNCHANGED <<recipes, storage, predictor, ocall, tlvars, valvars, splitvars,
                   chkvars, tl_fault, b2vars>>

OrganizeInit ==
    /\ CheckIdle
    /\ Build2Idle
    /\ tl_fault \in TimelineFaults
    /\ gcall = [op |-> "none"]
    /\ SplitIdle
    /\ TimelineIdle
    /\ ValidationIdle
    /\ \E k \in 0..MaxStore : \E sh \in [1..k -> StoreShapes] :
          recipes = [i \in 1..k |-> StoreRecipe(i, sh[i])]
    /\ storage = recipes
    /\ predictor \in Predictors
    /\ now = StoreNow
    /\ ocall = [outcome |-> "none"]

OrganizeNext ==
    \/ CallOrganizeRecipes
    \/ CallGenerateMissingStepTimes
    \/ CallGetCookingSummary

SpecOrganize == OrganizeInit /\ [][OrganizeNext]_vars

\* ------------------------------------------------------------------------
\* RecipeService: add_recipe, update_recipe, delete_recipe and
\* import_recipe_from_url called in any order on one store
\* ------------------------------------------------------------------------
\* A recipe as a caller of add_recipe or update_recipe builds it.
CallerRecipe(name, total_time) ==
    [name |-> name, ingredients |-> <<"x">>, steps |-> StepsFor(1, 1),
     prep_time |-> None, cook_time |-> None, total_time |-> total_time,
     step_times |-> <<MaxDur>>]

AddNames == {"A", "a", "B", RenamedName("a", 1), ""}
UpdateNames == {"A", "a", "b", ""}
DeleteNames == {"a", "B", RenamedName("A", 1), DEFAULT_SCRAPED_NAME}

add_recipe(recipe) ==
    IF validate_recipe(recipe) # <<>>
    THEN /\ gcall' = [op |-> "add_recipe", name |-> recipe.name,
                      outcome |-> "InvalidRecipeException"]
         /\ UNCHANGED <<recipes, storage>>
    ELSE IF get_recipe_by_name(recipes, recipe.name) # None
    THEN /\ gcall' = [op |-> "add_recipe", name |-> recipe.name,
                      outcome |-> "InvalidRecipeException"]
         /\ UNCHANGED <<recipes, storage>>
    ELSE /\ Len(recipes) < MaxStoreSize
         /\ recipes' = Append(recipes, recipe)
         /\ storage' = recipes'
         /\ gcall' = [op |-> "add_recipe", name |-> recipe.name, outcome |-> "returned"]

update_recipe(recipe) ==
    IF validate_recipe(recipe) # <<>>
    THEN /\ gcall' = [op |-> "update_recipe", name |-> recipe.name,
                      outcome |-> "InvalidRecipeException"]
         /\ UNCHANGED <<recipes, storage>>
    ELSE IF \E i \in 1..Len(recipes) : Lower(recipes[i].name) = Lower(recipe.name)
    THEN LET i == Min({j \in 1..Len(recipes) :
                          Lower(recipes[j].name) = Lower(recipe.name)})
         IN  /\ recipes' = [recipes EXCEPT ![i] = recipe]
             /\ storage' = recipes'
             /\ gcall' = [op |-> "update_recipe", name |-> recipe.name,
                          outcome |-> "returned"]
    ELSE /\ gcall' = [op |-> "update_recipe", name |-> recipe.name,
                      outcome |-> "RecipeNotFoundException"]
         /\ UNCHANGED <<recipes, storage>>

delete_recipe(name) ==
    IF \E i \in 1..Len(recipes) : Lower(recipes[i].name) = Lower(name)
    THEN LET i == Min({j \in 1..Len(recipes) : Lower(recipes[j].name) = Lower(name)})
         IN  /\ recipes' = [k \in 1..(Len(recipes) - 1) |->
                               IF k < i THEN recipes[k] ELSE recipes[k + 1]]
             /\ storage' = recipes'
             /\ gcall' = [op |-> "delete_recipe", name |-> name, outcome |-> "returned"]
    ELSE /\ gcall' = [op |-> "delete_recipe", name |-> name,
                      outcome |-> "RecipeNotFoundException"]
         /\ UNCHANGED <<recipes, storage>>

\* What scrape_me finds behind a well-formed url: a title (possibly empty)
\* and the ingredients.
ScrapedPages ==
    {[title |-> "A", ingredients |-> <<"x">>],
     [title |-> "B", ingredients |-> <<>>],
     [title |-> "", ingredients |-> <<"x">>]}

\* A url: whether it starts with http:// or https://, and the page behind
\* it, None when scrape_me raises.
Urls ==
    {[wellformed |-> FALSE, page |-> None], [wellformed |-> TRUE, page |-> None]}
    \cup {[wellformed |-> TRUE, page |-> Some(p)] : p \in ScrapedPages}

can_scrape_url(url) == url.wellformed

\* scrape_recipe on a page that scrape_me could read.
scrape_recipe(page) ==
    [name |-> IF page.title # "" THEN page.title ELSE DEFAULT_SCRAPED_NAME,
     ingredients |-> page.ingredients, steps |-> StepsFor(1, 1),
     prep_time |-> None, cook_time |-> None, total_time |-> None,
     step_times |-> <<FALLBACK_PREDICTION>>]

\* The while loop of import_recipe_from_url: <<recipe.name, counter>> when
\* it ends.
RECURSIVE RenameLoop(_, _, _, _)
RenameLoop(rs, original_name, name, counter) ==
    IF get_recipe_by_name(rs, name) # None
    THEN RenameLoop(rs, original_name, RenamedName(original_name, counter), counter + 1)
    ELSE <<name, counter>>

import_recipe_from_url(url) ==
    IF ~can_scrape_url(url)
    THEN /\ gcall' = [op |-> "import_recipe_from_url", success |-> FALSE,
                      error |-> "Invalid URL format"]
         /\ UNCHANGED <<recipes, storage>>
    ELSE IF url.page = None
    THEN /\ gcall' = [op |-> "import_recipe_from_url", success |-> FALSE,
                      error |-> "Failed to scrape recipe"]
         /\ UNCHANGED <<recipes, storage>>
    ELSE LET recipe == scrape_recipe(url.page[1])
             issues == validate_recipe(recipe)
             original_name == recipe.name
             loop == RenameLoop(recipes, original_name, original_name, 1)
             renamed == [recipe EXCEPT !.name = loop[1]]
         IN  /\ Len(recipes) < MaxStoreSize
             /\ recipes' = Append(recipes, renamed)
             /\ storage' = recipes'
             /\ gcall' = [op |-> "import_recipe_from_url", success |-> TRUE,
                          recipe |-> renamed, validation_issues |-> issues,
                          original_name |-> original_name, counter |-> loop[2],
                          name_changed |-> renamed.name # original_name]

CallAddRecipe ==
    /\ \E name \in AddNames : add_recipe(CallerRecipe(name, None))
    /\ UNCHANGED <<predictor, now, ocall, tlvars, valvars, splitvars, chkvars,
                   tl_fault, b2vars>>

CallUpdateRecipe ==
    /\ \E name \in UpdateNames : update_recipe(CallerRecipe(name, Some(MaxField)))
    /\ UNCHANGED <<predictor, now, ocall, tlvars, valvars, splitvars, chkvars,
                   tl_fault, b2vars>>

CallDeleteRecipe ==
    /\ \E name \in DeleteNames : delete_recipe(name)
    /\ UNCHANGED <<predictor, now, ocall, tlvars, valvars, splitvars, chkvars,
                   tl_fault, b2vars>>

CallImportRecipeFromUrl ==
    /\ \E url \in Urls : import_recipe_from_url(url)
    /\ UNCHANGED <<predictor, now, ocall, tlvars, valvars, splitvars, chkvars,
                   tl_fault, b2vars>>

\* Stores whose names are pairwise distinct ignoring case.
DistinctIgnoringCase(rs) ==
    \A i, j \in 1..Len(rs) : Lower(rs[i].name) = Lower(rs[j].name) => i = j

InitialStoreNames == {"A", "a", "B"}
MaxInitialStore == 2

StoreInit ==
    /\ CheckIdle
    /\ Build2Idle
    /\ tl_fault = "none"
    /\ gcall = [op |-> "none"]
    /\ SplitIdle
    /\ TimelineIdle
    /\ ValidationIdle
    /\ \E names \in SeqsUpTo(InitialStoreNames, MaxInitialStore) :
          /\ recipes = [i \in 1..Len(names) |-> CallerRecipe(names[i], None)]
          /\ DistinctIgnoringCase(recipes)
    /\ storage = recipes
    /\ predictor = CHOOSE p \in Predictors : TRUE
    /\ now = StoreNow
    /\ ocall = [outcome |-> "none"]

StoreNext ==
    \/ CallAddRecipe
    \/ CallUpdateRecipe
    \/ CallDeleteRecipe
    \/ CallImportRecipeFromUrl

SpecStore == StoreInit /\ [][StoreNext]_vars

\* ------------------------------------------------------------------------
\* StepSplitter (meal_time/utils/step_splitter.py)
\*
\* A text is a sequence of tokens.  Every digit, every punctuation mark and
\* every blank is a token of its own; a word is one token.  The words of a
\* text are those of WordTable, which gives each lower-case word its
\* capitalised form and its number of characters.
\* ------------------------------------------------------------------------
WordTable ==
    [cook |-> <<"Cook", 4>>, bake |-> <<"Bake", 4>>, chop |-> <<"Chop", 4>>,
     cool |-> <<"Cool", 4>>, serve |-> <<"Serve", 5>>, it |-> <<"It", 2>>,
     for |-> <<"For", 3>>, and |-> <<"And", 3>>, then |-> <<"Then", 4>>,
     until |-> <<"Until", 5>>, done |-> <<"Done", 4>>,
     about |-> <<"About", 5>>, around |-> <<"Around", 6>>,
     approximately |-> <<"Approximately", 13>>, roughly |-> <<"Roughly", 7>>,
     minutes |-> <<"Minutes", 7>>, minute |-> <<"Minute", 6>>,
     mins |-> <<"Mins", 4>>, min |-> <<"Min", 3>>,
     hours |-> <<"Hours", 5>>, hour |-> <<"Hour", 4>>,
     hrs |-> <<"Hrs", 3>>, hr |-> <<"Hr", 2>>,
     seconds |-> <<"Seconds", 7>>, second |-> <<"Second", 6>>,
     secs |-> <<"Secs", 4>>, sec |-> <<"Sec", 3>>]

\* The one element of a one-element set.  An operator that uses an argument
\* more than once binds it first, as in  Only({F(x) : x \in {e}}), so that e
\* is evaluated once.
Only(S) == CHOOSE x \in S : TRUE

LowerWords == DOMAIN WordTable
UpperWords == {WordTable[w][1] : w \in LowerWords}

\* str.upper() and str.lower() of one token
UpperTok(c) == IF c \in LowerWords THEN WordTable[c][1] ELSE c
LowerTok(c) ==
    IF c \in UpperWords THEN CHOOSE w \in LowerWords : WordTable[w][1] = c ELSE c

\* len() of one token and of a text
TokLen(c) == IF LowerTok(c) \in LowerWords THEN WordTable[LowerTok(c)][2] ELSE 1

RECURSIVE CharLenUpTo(_, _)
CharLenUpTo(t, n) == IF n = 0 THEN 0 ELSE CharLenUpTo(t, n - 1) + TokLen(t[n])

CharLen(text) == Only({CharLenUpTo(t, Len(t)) : t \in {text}})

LowerText(text) == Only({[i \in 1..Len(t) |-> LowerTok(t[i])] : t \in {text}})

DigitSeq == <<"0", "1", "2", "3", "4", "5", "6", "7", "8", "9">>
IsDigit(c) == \E i \in 1..Len(DigitSeq) : DigitSeq[i] = c
DigitVal(c) == (CHOOSE i \in 1..Len(DigitSeq) : DigitSeq[i] = c) - 1

EnDash == "ndash"
Hyphens == {"-", EnDash}
Blank == " "

\* \w: a letter or a digit
IsWordChar(c) == IsDigit(c) \/ LowerTok(c) \in LowerWords

\* the token at position p, "" outside the text
Tok(t, p) == IF p >= 1 /\ p <= Len(t) THEN t[p] ELSE ""

\* \d* , \s* and \w* from position p: the position after the longest run
RECURSIVE DigitsEnd(_, _)
DigitsEnd(t, p) == IF IsDigit(Tok(t, p)) THEN DigitsEnd(t, p + 1) ELSE p

RECURSIVE SpacesEnd(_, _)
SpacesEnd(t, p) == IF Tok(t, p) = Blank THEN SpacesEnd(t, p + 1) ELSE p

RECURSIVE WordCharsEnd(_, _)
WordCharsEnd(t, p) == IF IsWordChar(Tok(t, p)) THEN WordCharsEnd(t, p + 1) ELSE p

\* \d+(?:\.\d+)? from position p: the position after it, p when it fails
NumberEnd(t, p) ==
    LET e == DigitsEnd(t, p) IN
    IF e > p /\ Tok(t, e) = "." /\ DigitsEnd(t, e + 1) > e + 1
    THEN DigitsEnd(t, e + 1)
    ELSE e

\* int() of the digits t[p..e-1]
RECURSIVE IntOf(_, _, _)
IntOf(t, p, e) ==
    IF e <= p THEN 0 ELSE 10 * IntOf(t, p, e - 1) + DigitVal(t[e - 1])

RECURSIVE Pow10(_)
Pow10(n) == IF n = 0 THEN 1 ELSE 10 * Pow10(n - 1)

\* float() of the number t[p..e-1], as the fraction <<numerator, denominator>>
FloatOf(t, p, e) ==
    LET d == DigitsEnd(t, p) IN
    IF d = e THEN <<IntOf(t, p, e), 1>>
    ELSE <<IntOf(t, p, d) * Pow10(e - d - 1) + IntOf(t, d + 1, e), Pow10(e - d - 1)>>

\* int(x) and int(x * 60 + m) of a non-negative float x
IntOfFloat(x) == x[1] \div x[2]
IntOfHours(x, m) == (x[1] * 60 + m * x[2]) \div x[2]

\* the tokens of t at the positions K, in order
SubSeqAt(t, positions) ==
    Only({[j \in 1..Cardinality(K) |->
              t[CHOOSE i \in K : Cardinality({x \in K : x <= i}) = j]] :
          K \in {positions}})

\* str.strip()
StripBetween(t, K) ==
    IF K = {} THEN <<>>
    ELSE SubSeq(t, CHOOSE i \in K : \A x \in K : i <= x,
                   CHOOSE i \in K : \A x \in K : i >= x)

Strip(text) ==
    Only({Only({StripBetween(t, K) : K \in {{i \in 1..Len(t) : t[i] # Blank}}}) :
          t \in {text}})

\* ---- TIME_PATTERNS ------------------------------------------------------
MinuteUnits == {"minutes", "minute", "mins", "min"}
HourUnits == {"hours", "hour", "hrs", "hr"}
SecondUnits == {"seconds", "second", "secs", "sec"}
Qualifiers == {"about", "around", "approximately", "roughly"}

\* `'hour' in unit` and the like
ContainsHour(u) == u \in {"hours", "hour"}
ContainsHr(u) == u \in {"hrs", "hr"}
ContainsMinute(u) == u \in {"minutes", "minute"}
ContainsMin(u) == u \in MinuteUnits
ContainsSecond(u) == u \in {"seconds", "second"}
ContainsSec(u) == u \in SecondUnits

NoMatch == [e |-> 0]

\* (?<!\-) at position p
NotAfterHyphen(t, p) == Tok(t, p - 1) # "-"

\* A match is [s, e, ngroups, num, unit, minutes]: the text t[s..e-1], the
\* number of groups of the pattern, the first number, the unit and the
\* second number (None when its group did not take part).

\* (\d+)\s*[-–]\s*(\d+)\s*(minutes|minute|mins|min|hours|hour|hrs|hr)
MatchRange(t, p) ==
    LET d1 == DigitsEnd(t, p)
        h == SpacesEnd(t, d1)
        s2 == SpacesEnd(t, h + 1)
        d2 == DigitsEnd(t, s2)
        u == SpacesEnd(t, d2)
    IN  IF /\ d1 > p
           /\ Tok(t, h) \in Hyphens
           /\ d2 > s2
           /\ Tok(t, u) \in MinuteUnits \cup HourUnits
        THEN [s |-> p, e |-> u + 1, ngroups |-> 3, num |-> <<IntOf(t, p, d1), 1>>,
              unit |-> t[u], minutes |-> Some(IntOf(t, s2, d2))]
        ELSE NoMatch

\* (about|around|approximately|roughly)\s+(\d+(?:\.\d+)?)\s*(minutes|...|hr)
MatchApprox(t, p) ==
    LET s == SpacesEnd(t, p + 1)
        n == NumberEnd(t, s)
        u == SpacesEnd(t, n)
    IN  IF /\ Tok(t, p) \in Qualifiers
           /\ s > p + 1
           /\ n > s
           /\ Tok(t, u) \in MinuteUnits \cup HourUnits
        THEN [s |-> p, e |-> u + 1, ngroups |-> 3, num |-> FloatOf(t, s, n),
              unit |-> t[u], minutes |-> None]
        ELSE NoMatch

\* (\d+(?:\.\d+)?)\s*(hours|hour|hrs|hr)\s+(\d+)\s*(minutes|minute|mins|min)
MatchCompound(t, p) ==
    LET n == NumberEnd(t, p)
        u == SpacesEnd(t, n)
        s == SpacesEnd(t, u + 1)
        d == DigitsEnd(t, s)
        v == SpacesEnd(t, d)
    IN  IF /\ n > p
           /\ Tok(t, u) \in HourUnits
           /\ s > u + 1
           /\ d > s
           /\ Tok(t, v) \in MinuteUnits
        THEN [s |-> p, e |-> v + 1, ngroups |-> 4, num |-> FloatOf(t, p, n),
              unit |-> t[u], minutes |-> Some(IntOf(t, s, d))]
        ELSE NoMatch

\* (?<!\-)(\d+(?:\.\d+)?)\s*(hours|hour|hrs|hr)\s*(?:and\s*)?
\*     (?:(\d+)\s*(minutes|minute|mins|min))?
MatchHours(t, p) ==
    LET n == NumberEnd(t, p)
        u == SpacesEnd(t, n)
        a == SpacesEnd(t, u + 1)
        b == IF Tok(t, a) = "and" THEN SpacesEnd(t, a + 1) ELSE a
        d == DigitsEnd(t, b)
        v == SpacesEnd(t, d)
        withMinutes == d > b /\ Tok(t, v) \in MinuteUnits
    IN  IF /\ NotAfterHyphen(t, p)
           /\ n > p
           /\ Tok(t, u) \in HourUnits
        THEN [s |-> p, e |-> IF withMinutes THEN v + 1 ELSE b, ngroups |-> 4,
              num |-> FloatOf(t, p, n), unit |-> t[u],
              minutes |-> IF withMinutes THEN Some(IntOf(t, b, d)) ELSE None]
        ELSE NoMatch

\* (?<!\-)(\d+(?:\.\d+)?)\s*(minutes|minute|mins|min)   and
\* (?<!\-)(\d+(?:\.\d+)?)\s*(seconds|second|secs|sec)
MatchSimple(t, p, units) ==
    LET n == NumberEnd(t, p)
        u == SpacesEnd(t, n)
    IN  IF /\ NotAfterHyphen(t, p)
           /\ n > p
           /\ Tok(t, u) \in units
        THEN [s |-> p, e |-> u + 1, ngroups |-> 2, num |-> FloatOf(t, p, n),
              unit |-> t[u], minutes |-> None]
        ELSE NoMatch

NumTimePatterns == 6
APPROX_PATTERN == 2

\* TIME_PATTERNS[k - 1] tried at position p
TIME_PATTERNS(k, t, p) ==
    CASE k = 1 -> MatchRange(t, p)
      [] k = 2 -> MatchApprox(t, p)
      [] k = 3 -> MatchCompound(t, p)
      [] k = 4 -> MatchHours(t, p)
      [] k = 5 -> MatchSimple(t, p, MinuteUnits)
      [] k = 6 -> MatchSimple(t, p, SecondUnits)

\* re.search(TIME_PATTERNS[k - 1], t) from position p on: the leftmost match
SearchTime(k, t, p) ==
    Only({IF hits = {} THEN NoMatch
          ELSE TIME_PATTERNS(k, t, CHOOSE q \in hits : \A x \in hits : q <= x) :
          hits \in {{q \in p..Len(t) : TIME_PATTERNS(k, t, q).e > 0}}})

\* len(re.findall(TIME_PATTERNS[k - 1], t))
RECURSIVE FindallCount(_, _, _)
FindallCount(k, t, p) ==
    Only({IF m.e = 0 THEN 0 ELSE 1 + FindallCount(k, t, m.e) :
          m \in {SearchTime(k, t, p)}})

HasHyphen(t) == \E i \in 1..Len(t) : t[i] \in Hyphens

NoTime == [time_minutes |-> None, time_text |-> None]
Found(time_minutes, time_text) ==
    [time_minutes |-> Some(time_minutes), time_text |-> Some(time_text)]

\* A variant of the range branch that truncates the average before the
\* conversion to minutes: int(avg_time) * 60
RangeMinutes_TruncatesAverageFirst(m) ==
    IF ContainsHour(m.unit) \/ ContainsHr(m.unit)
    THEN ((m.num[1] + m.minutes[1]) \div 2) * 60
    ELSE (m.num[1] + m.minutes[1]) \div 2

\* extract_time_from_text, lines 72-79: start, end = groups[0], groups[1];
\* avg_time = (start + end) / 2; int(avg_time * 60) or int(avg_time)
RangeMinutes(m) ==
    IF ContainsHour(m.unit) \/ ContainsHr(m.unit)
    THEN ((m.num[1] + m.minutes[1]) * 60) \div 2
    ELSE (m.num[1] + m.minutes[1]) \div 2

\* extract_time_from_text, lines 66-118: the if/elif chain on the match m of
\* the k-th pattern; NoTime when no branch returns
TimeOfMatch(k, m, time_text) ==
    IF HasHyphen(time_text) THEN Found(RangeMinutes(m), time_text)
    ELSE IF k = APPROX_PATTERN THEN
        IF ContainsHour(m.unit) THEN Found(IntOfHours(m.num, 0), time_text)
        ELSE IF ContainsMinute(m.unit) THEN Found(IntOfFloat(m.num), time_text)
        ELSE IF ContainsSecond(m.unit)
        THEN Found(Max(1, IntOfFloat(m.num) \div 60), time_text)
        ELSE Found(0, time_text)
    ELSE IF m.ngroups >= 4 /\ m.minutes # None /\ ContainsHour(m.unit) THEN
        Found(IntOfHours(m.num, m.minutes[1]), time_text)
    ELSE IF ContainsMinute(m.unit) \/ ContainsMin(m.unit) THEN
        Found(IntOfFloat(m.num), time_text)
    ELSE IF ContainsHour(m.unit) \/ ContainsHr(m.unit) THEN
        Found(IntOfHours(m.num,
                         IF m.ngroups > 2 /\ m.minutes # None THEN m.minutes[1] ELSE 0),
              time_text)
    ELSE IF ContainsSecond(m.unit) \/ ContainsSec(m.unit) THEN
        Found(Max(1, IntOfFloat(m.num) \div 60), time_text)
    ELSE NoTime

\* extract_time_from_text, lines 63-120: the patterns from the k-th on; a
\* match that no branch takes goes on to the next pattern
RECURSIVE ExtractFrom(_, _)
ExtractFrom(k, text_lower) ==
    IF k > NumTimePatterns THEN NoTime
    ELSE Only({IF m.e = 0 THEN ExtractFrom(k + 1, text_lower)
               ELSE Only({IF x = NoTime THEN ExtractFrom(k + 1, text_lower) ELSE x :
                          x \in {TimeOfMatch(k, m, SubSeq(text_lower, m.s, m.e - 1))}}) :
               m \in {SearchTime(k, text_lower, 1)}})

extract_time_from_text(text) ==
    Only({ExtractFrom(1, text_lower) : text_lower \in {Strip(LowerText(text))}})

\* ---- SPLIT_CONJUNCTIONS -------------------------------------------------
\* A conjunction is a list of alternatives in the order the regex tries
\* them; an alternative is a list of sets of words, the words of a match
\* being separated by \s+.  The last conjunction, [.;]\s*, has no words.
SPLIT_CONJUNCTIONS ==
    << << <<{"then"}>> >>,
       << <<{"and"}, {"then"}>> >>,
       << <<{"next"}>> >>,
       << <<{"after"}, {"that", "this"}>> >>,
       << <<{"followed"}, {"by"}>> >>,
       << <<{"once"}, {"done", "finished", "complete"}>> >>,
       << <<{"when"}, {"done", "finished", "complete"}>> >>,
       << <<{"immediately"}, {"after", "before"}>> >>,
       << <<{"meanwhile"}>> >>,
       << <<{"at"}, {"the"}, {"same"}, {"time"}>> >>,
       << <<{"while"}, {"that", "this", "it"}, {"is"}, {"cooking", "baking", "simmering"}>>,
          <<{"while"}, {"that", "this", "it"}, {"cooking", "baking", "simmering"}>> >>,
       << <<{"and"}, {"serve", "remove", "add", "season", "garnish", "cool", "let", "allow"}>> >>,
       << >> >>

NumConjunctions == 13
SENTENCE_SPLIT == 13
COMMA_SPLIT == 14

SentenceEnds == {".", ";"}

\* the token at position p, lower-cased under re.IGNORECASE
TokCase(t, p, ignorecase) == IF ignorecase THEN LowerTok(Tok(t, p)) ELSE Tok(t, p)

\* the words of alternative alt from its i-th word on, at position p: the
\* position after the match, 0 when it fails
RECURSIVE MatchWords(_, _, _, _, _)
MatchWords(alt, i, t, p, ignorecase) ==
    IF TokCase(t, p, ignorecase) \notin alt[i] THEN 0
    ELSE IF i = Len(alt) THEN (IF IsWordChar(Tok(t, p + 1)) THEN 0 ELSE p + 1)
    ELSE Only({IF s = p + 1 THEN 0 ELSE MatchWords(alt, i + 1, t, s, ignorecase) :
               s \in {SpacesEnd(t, p + 1)}})

RECURSIVE MatchAlternatives(_, _, _, _, _)
MatchAlternatives(alts, j, t, p, ignorecase) ==
    IF j > Len(alts) THEN 0
    ELSE Only({IF e > 0 THEN e ELSE MatchAlternatives(alts, j + 1, t, p, ignorecase) :
               e \in {MatchWords(alts[j], 1, t, p, ignorecase)}})

\* ,\s*(?=\w+\s+for\s+\d+) at position p
MatchComma(t, p) ==
    LET s == SpacesEnd(t, p + 1)
        w == WordCharsEnd(t, s)
        f == SpacesEnd(t, w)
        g == SpacesEnd(t, f + 1)
    IN  IF /\ Tok(t, p) = ","
           /\ w > s
           /\ f > w
           /\ Tok(t, f) = "for"
           /\ g > f + 1
           /\ IsDigit(Tok(t, g))
        THEN s ELSE 0

\* the separator sep tried at position p of t: the position after the match,
\* 0 when it fails.  Separators are the conjunctions and the comma pattern.
MatchSeparator(sep, t, p, ignorecase) ==
    IF sep = COMMA_SPLIT THEN MatchComma(t, p)
    ELSE IF sep = SENTENCE_SPLIT THEN
        (IF Tok(t, p) \in SentenceEnds THEN SpacesEnd(t, p + 1) ELSE 0)
    ELSE IF IsWordChar(Tok(t, p - 1)) THEN 0
    ELSE Only({MatchAlternatives(alts, 1, t, p, ignorecase) :
               alts \in {SPLIT_CONJUNCTIONS[sep]}})

\* re.search(sep, t) is not None
SearchSeparator(sep, t, ignorecase) ==
    \E p \in 1..Len(t) : MatchSeparator(sep, t, p, ignorecase) > 0

\* re.split(sep, t), with the matches when the pattern is in a group: the
\* pieces between the matches (and the matches) in order; from is where the
\* current piece starts, p the position tried
RECURSIVE ReSplit(_, _, _, _, _, _)
ReSplit(sep, t, from, p, ignorecase, keep) ==
    IF p > Len(t) THEN <<SubSeq(t, from, Len(t))>>
    ELSE Only({IF e > 0
               THEN <<SubSeq(t, from, p - 1)>>
                    \o (IF keep THEN <<SubSeq(t, p, e - 1)>> ELSE <<>>)
                    \o ReSplit(sep, t, e, e, ignorecase, keep)
               ELSE ReSplit(sep, t, from, q, ignorecase, keep) :
               e \in {MatchSeparator(sep, t, p, ignorecase)}, q \in {p + 1}})

NonEmpty(t) == t # <<>>

\* [part.strip() for part in pieces if part.strip()]
StrippedNonEmpty(pieces) ==
    Only({SelectSeq([i \in 1..Len(ps) |-> Strip(ps[i])], NonEmpty) : ps \in {pieces}})

\* has_multiple_time_instructions
RECURSIVE TimeCount(_, _)
TimeCount(k, t) ==
    IF k > NumTimePatterns THEN 0
    ELSE FindallCount(k, t, 1) + TimeCount(k + 1, t)

has_multiple_time_instructions(step_text) ==
    Only({Only({time_count > 1
                \/ (/\ time_count >= 1
                    /\ \E c \in 1..NumConjunctions : SearchSeparator(c, t, FALSE)) :
                time_count \in {TimeCount(1, t)}}) :
          t \in {LowerText(step_text)}})

\* split_step, lines 170-183: the loop that rebuilds the parts from the
\* pieces of re.split; st is <<parts, current_part>>
AfterPiece(conjunction, st, piece) ==
    IF MatchSeparator(conjunction, Strip(piece), 1, TRUE) > 0
    THEN (IF Strip(st[2]) # <<>> THEN <<Append(st[1], Strip(st[2])), <<>> >> ELSE st)
    ELSE <<st[1], st[2] \o piece>>

RECURSIVE Reconstruct(_, _, _, _)
Reconstruct(conjunction, split_parts, i, st) ==
    IF i > Len(split_parts)
    THEN (IF Strip(st[2]) # <<>> THEN Append(st[1], Strip(st[2])) ELSE st[1])
    ELSE Only({Reconstruct(conjunction, split_parts, j, st2) :
               j \in {i + 1}, st2 \in {AfterPiece(conjunction, st, split_parts[i])}})

\* _clean_instruction_text, line 241: re.sub(r'\s+', ' ', t)
CollapseBlanks(t) ==
    SubSeqAt(t, {i \in 1..Len(t) : ~(t[i] = Blank /\ Tok(t, i - 1) = Blank)})

\* ^(then|and then|next|after that|followed by)\s+ : the position after it,
\* 0 when t does not start with it
LeadingConjunctionEnd(t) ==
    Only({IF w > 0 /\ SpacesEnd(t, w) > w THEN SpacesEnd(t, w) ELSE 0 :
          w \in {IF LowerTok(Tok(t, 1)) \in {"then", "next"} THEN 2
                 ELSE IF /\ Tok(t, 2) = Blank
                         /\ <<LowerTok(Tok(t, 1)), LowerTok(Tok(t, 3))>> \in
                                {<<"and", "then">>, <<"after", "that">>, <<"followed", "by">>}
                      THEN 4
                 ELSE 0}})

\* _clean_instruction_text, line 244
DropLeadingConjunction(t) ==
    Only({IF lead > 0 THEN SubSeq(t, lead, Len(t)) ELSE t :
          lead \in {LeadingConjunctionEnd(t)}})

AllBlank(t, p) == \A i \in p..Len(t) : t[i] = Blank

\* re.sub(r'[,;]\s*\.\s*$', '.', t) and re.sub(r'[,;]\s*$', '.', t)
TrailingFix(t, withPeriod) ==
    Only({IF hits = {} THEN t
          ELSE Append(SubSeq(t, 1, (CHOOSE p \in hits : \A x \in hits : p <= x) - 1), ".") :
          hits \in {{p \in 1..Len(t) :
                       /\ t[p] \in {",", ";"}
                       /\ IF withPeriod
                          THEN /\ Tok(t, SpacesEnd(t, p + 1)) = "."
                               /\ AllBlank(t, SpacesEnd(t, p + 1) + 1)
                          ELSE AllBlank(t, p + 1)}}})

\* _clean_instruction_text, lines 250-256
CapitalizeAndEnd(t) ==
    IF t = <<>> THEN t
    ELSE Only({IF c[Len(c)] \in {".", "!", "?"} THEN c ELSE Append(c, ".") :
               c \in {IF t[1] \in LowerWords THEN <<UpperTok(t[1])>> \o Tail(t) ELSE t}})

_clean_instruction_text(text, time_text) ==
    Only({CapitalizeAndEnd(t4) :
          t4 \in {TrailingFix(t3, FALSE) :
          t3 \in {TrailingFix(t2, TRUE) :
          t2 \in {DropLeadingConjunction(t1) :
          t1 \in {CollapseBlanks(t0) :
          t0 \in {Strip(text)}}}}}})

SplitStep(instruction, time_minutes, time_text) ==
    [instruction |-> instruction, time_minutes |-> time_minutes, time_text |-> time_text]

MIN_INSTRUCTION_CHARS == 3

\* split_step, lines 213-216: the SplitStep of one part
ProcessPart(part) ==
    Only({SplitStep(_clean_instruction_text(part, x.time_text), x.time_minutes, x.time_text) :
          x \in {extract_time_from_text(part)}})

\* split_step, line 219
Meaningful(split) == CharLen(Strip(split.instruction)) > MIN_INSTRUCTION_CHARS

\* split_step, lines 206-224: one SplitStep per part whose cleaned text is
\* longer than three characters (the cleaned text of an empty part is empty)
ProcessParts(parts) ==
    SelectSeq([i \in 1..Len(parts) |-> ProcessPart(Strip(parts[i]))], Meaningful)

\* split_step, lines 153-158: the text as one step
SingleStep(step_text) ==
    Only({<<SplitStep(step_text, x.time_minutes, x.time_text)>> :
          x \in {extract_time_from_text(step_text)}})

\* split_step, lines 161-184: the parts between the matches of the first
\* conjunction found in the text, <<>> when none is found
ConjunctionParts(step_text) ==
    Only({IF found = {} THEN <<>>
          ELSE Only({Only({Reconstruct(c, split_parts, 1, <<<<>>, <<>>>>) :
                           split_parts \in {ReSplit(c, step_text, 1, 1, TRUE, TRUE)}}) :
                     c \in {CHOOSE x \in found : \A y \in found : x <= y}}) :
          found \in {{c \in 1..NumConjunctions : SearchSeparator(c, step_text, TRUE)}}})

\* split_step, lines 187-190
SentenceParts(step_text, parts) ==
    IF parts = <<>>
    THEN StrippedNonEmpty(ReSplit(SENTENCE_SPLIT, step_text, 1, 1, FALSE, FALSE))
    ELSE parts

\* split_step, lines 193-195
CommaParts(step_text, parts) ==
    IF Len(parts) <= 1
    THEN StrippedNonEmpty(ReSplit(COMMA_SPLIT, step_text, 1, 1, FALSE, FALSE))
    ELSE parts

\* split_step, lines 198-235, given the parts
StepsOfParts(step_text, parts) ==
    IF Len(parts) <= 1 THEN SingleStep(step_text)
    ELSE Only({IF split_steps = <<>> THEN SingleStep(step_text) ELSE split_steps :
               split_steps \in {ProcessParts(parts)}})

split_step(raw_text) ==
    Only({IF ~has_multiple_time_instructions(step_text) THEN SingleStep(step_text)
          ELSE Only({StepsOfParts(step_text, parts3) :
                     parts3 \in {CommaParts(step_text, parts2) :
                     parts2 \in {SentenceParts(step_text, parts1) :
                     parts1 \in {ConjunctionParts(step_text)}}}}) :
          step_text \in {Strip(raw_text)}})

\* ---- split_recipe_steps -------------------------------------------------
SPLIT_FALLBACK_TIME == 5

\* ---- the step texts given to split_recipe_steps --------------------------
\* ' '.join(parts)
RECURSIVE Join(_)
Join(parts) ==
    IF parts = <<>> THEN <<>>
    ELSE IF Len(parts) = 1 THEN parts[1]
    ELSE parts[1] \o <<Blank>> \o Join(Tail(parts))

SampleNumbers == {<<"0">>, <<"5">>, <<"1", "5">>, <<"2", ".", "5">>}
SampleUnits == {"minutes", "mins", "hours", "hrs", "seconds"}

PlainTimes == {Join(<<n, <<u>>>>) : n \in SampleNumbers, u \in SampleUnits}
NegativeTimes == {<<"-">> \o Join(<<n, <<"minutes">>>>) : n \in SampleNumbers}
ApproxTimes ==
    {Join(<<<<"about">>, <<"5">>, <<u>>>>) : u \in SampleUnits \ {"seconds"}}
RangeTimes ==
    {a \o <<"-">> \o Join(<<b, <<u>>>>) :
        a \in {<<"0">>, <<"5">>}, b \in {<<"5">>, <<"1", "5">>}, u \in {"minutes", "hours"}}
CompoundTimes ==
    {Join(<<<<"1">>, <<"hour">>, <<"1", "5">>, <<"minutes">>>>),
     Join(<<<<"1">>, <<"hour">>, <<"and">>, <<"1", "5">>, <<"minutes">>>>),
     Join(<<<<"5">>, <<"hrs">>, <<"1", "5">>, <<"mins">>>>)}
TimeTexts ==
    PlainTimes \cup NegativeTimes \cup ApproxTimes \cup RangeTimes \cup CompoundTimes

PairTimes == {<<"5", Blank, "minutes">>, <<"0", Blank, "minutes">>}
Links ==
    {<<",", Blank, "then", Blank>>, <<".", Blank>>, <<",", Blank>>,
     <<Blank, "and", Blank, "then", Blank>>, <<Blank, "and", Blank>>}

Timed(verb, time) == Join(<<<<verb>>, <<"for">>, time>>)

Instructions ==
    {<<>>, <<"chop">>, <<"Cook", Blank, "for", Blank, "5", Blank, "minutes", ".">>,
     Timed("cook", <<"5", Blank, "minutes">>) \o <<Blank, "and", Blank, "serve">>,
     Timed("cook", <<"5", Blank, "minutes">>) \o <<",", Blank, "then", Blank, "it">>}
    \cup {Timed("cook", time) : time \in TimeTexts}
    \cup {Timed("cook", t1) \o link \o Timed("bake", t2) :
             t1 \in PairTimes, t2 \in PairTimes, link \in Links}
    \cup {<<"then", Blank>> \o Timed("bake", t1) \o <<".", Blank>> \o Timed("cool", t2) :
             t1 \in PairTimes, t2 \in PairTimes}

\* split_step over the step texts of the model, evaluated once
SplitStepTable == [step \in Instructions |-> split_step(step)]

\* split_recipe_steps, lines 266-267
SplitEnterLoop ==
    /\ sp_pc = "idle"
    /\ sp_pc' = "loop"
    /\ sp_idx' = 1
    /\ new_steps' = <<>>
    /\ new_step_times' = <<>>
    /\ UNCHANGED <<sp_steps, tlvars, valvars, orgvars, auxvars>>

\* split_recipe_steps, lines 269-276: one turn of the outer loop
SplitProcessStep ==
    /\ sp_pc = "loop"
    /\ sp_idx <= Len(sp_steps)
    /\ LET split_steps == SplitStepTable[sp_steps[sp_idx]] IN
       /\ new_steps' = new_steps \o
              [i \in 1..Len(split_steps) |-> split_steps[i].instruction]
       /\ new_step_times' = new_step_times \o
              [i \in 1..Len(split_steps) |->
                  IF split_steps[i].time_minutes # None
                  THEN split_steps[i].time_minutes[1]
                  ELSE SPLIT_FALLBACK_TIME]
    /\ sp_idx' = sp_idx + 1
    /\ UNCHANGED <<sp_steps, sp_pc, tlvars, valvars, orgvars, auxvars>>

\* split_recipe_steps, line 278
SplitReturn ==
    /\ sp_pc = "loop"
    /\ sp_idx > Len(sp_steps)
    /\ sp_pc' = "returned"
    /\ UNCHANGED <<sp_steps, sp_idx, new_steps, new_step_times, tlvars, valvars, orgvars, auxvars>>

SplitInit ==
    /\ AuxIdle
    /\ TimelineIdle
    /\ ValidationIdle
    /\ OrganizeIdle
    /\ \E k \in 0..MaxInstr : sp_steps \in [1..k -> Instructions]
    /\ sp_idx = 0
    /\ new_steps = <<>>
    /\ new_step_times = <<>>
    /\ sp_pc = "idle"

SplitNext ==
    \/ SplitEnterLoop
    \/ SplitProcessStep
    \/ SplitReturn

SpecSplit == SplitInit /\ [][SplitNext]_vars

\* ------------------------------------------------------------------------
\* StepTimeParser (step_time_parser_service.py): the second parser of step
\* texts, with its own patterns.  The patterns are compiled with
\* re.IGNORECASE: a match is looked for in the lower-cased text and its
\* phrase is taken from the text as written.  The fraction signs of the
\* third pattern do not occur in the texts of the model.
\* ------------------------------------------------------------------------
EmDash == "mdash"
ParserDashes == Hyphens \cup {EmDash}
ParserUnits == MinuteUnits \cup HourUnits \cup SecondUnits
UntilVerbs == {"cook", "bake", "simmer", "boil"}
UntilStates == {"golden", "done", "tender", "cooked", "set"}
NumParserPatterns == 5
CONTEXT_CHARS == 50

\* unit_conversions: the minutes of one unit, as a fraction
unit_conversions(u) ==
    IF u \in SecondUnits THEN <<1, 60>>
    ELSE IF u \in HourUnits THEN <<60, 1>>
    ELSE <<1, 1>>

\* A match of a parser pattern is [e, groups, value, unit]: the position
\* after the match, the number of groups, the time value as a fraction (for
\* a range, the average of its ends) and the unit.
NoParserMatch == [e |-> 0]

\* (\d+(?:\.\d+)?)\s*(minutes?|mins?|hours?|hrs?|seconds?|secs?)
MatchStandard(t, p) ==
    LET n == NumberEnd(t, p)
        u == SpacesEnd(t, n)
    IN  IF n > p /\ Tok(t, u) \in ParserUnits
        THEN [e |-> u + 1, groups |-> 2, value |-> FloatOf(t, p, n), unit |-> t[u]]
        ELSE NoParserMatch

\* (\d+(?:\.\d+)?)\s*[-–—]\s*(\d+(?:\.\d+)?)\s*(minutes?|...|secs?)
MatchParserRange(t, p) ==
    LET n1 == NumberEnd(t, p)
        h == SpacesEnd(t, n1)
        s2 == SpacesEnd(t, h + 1)
        n2 == NumberEnd(t, s2)
        u == SpacesEnd(t, n2)
        a == FloatOf(t, p, n1)
        b == FloatOf(t, s2, n2)
    IN  IF /\ n1 > p
           /\ Tok(t, h) \in ParserDashes
           /\ n2 > s2
           /\ Tok(t, u) \in ParserUnits
        THEN [e |-> u + 1, groups |-> 3,
              value |-> <<a[1] * b[2] + b[1] * a[2], 2 * a[2] * b[2]>>, unit |-> t[u]]
        ELSE NoParserMatch

\* (\d+\/\d+|...)\s*(minutes?|mins?|hours?|hrs?)
MatchFraction(t, p) ==
    LET d1 == DigitsEnd(t, p)
        d2 == DigitsEnd(t, d1 + 1)
        u == SpacesEnd(t, d2)
    IN  IF /\ d1 > p
           /\ Tok(t, d1) = "/"
           /\ d2 > d1 + 1
           /\ Tok(t, u) \in MinuteUnits \cup HourUnits
        THEN [e |-> u + 1, groups |-> 2,
              value |-> <<IntOf(t, p, d1), IntOf(t, d1 + 1, d2)>>, unit |-> t[u]]
        ELSE NoParserMatch

\* (?:about|approximately|roughly|around)\s+(\d+(?:\.\d+)?)\s*(minutes?|...|hrs?)
MatchAbout(t, p) ==
    LET s == SpacesEnd(t, p + 1)
        n == NumberEnd(t, s)
        u == SpacesEnd(t, n)
    IN  IF /\ Tok(t, p) \in Qualifiers
           /\ s > p + 1
           /\ n > s
           /\ Tok(t, u) \in MinuteUnits \cup HourUnits
        THEN [e |-> u + 1, groups |-> 2, value |-> FloatOf(t, s, n), unit |-> t[u]]
        ELSE NoParserMatch

\* (?:cook|bake|simmer|boil)\s+until\s+(?:golden|done|tender|cooked|set)
MatchUntil(t, p) ==
    LET s == SpacesEnd(t, p + 1)
        d == SpacesEnd(t, s + 1)
    IN  IF /\ Tok(t, p) \in UntilVerbs
           /\ s > p + 1
           /\ Tok(t, s) = "until"
           /\ d > s + 1
           /\ Tok(t, d) \in UntilStates
        THEN [e |-> d + 1, groups |-> 0]
        ELSE NoParserMatch

\* time_patterns[k - 1] tried at position p
time_patterns(k, t, p) ==
    CASE k = 1 -> MatchStandard(t, p)
      [] k = 2 -> MatchParserRange(t, p)
      [] k = 3 -> MatchFraction(t, p)
      [] k = 4 -> MatchAbout(t, p)
      [] k = 5 -> MatchUntil(t, p)

\* int(round(x)) of a non-negative fraction x: round half to even
RoundHalfEven(x) ==
    LET f == x[1] \div x[2]
        r == 2 * (x[1] % x[2])
    IN  IF r < x[2] THEN f
        ELSE IF r > x[2] THEN f + 1
        ELSE IF f % 2 = 0 THEN f ELSE f + 1

\* _parse_time_match: the time information of the match m that starts at
\* position s of the text, None for a match with fewer than two groups
_parse_time_match(text, s, m) ==
    IF m.groups >= 2
    THEN Some([phrase |-> SubSeq(text, s, m.e - 1),
               minutes |-> Max(1, RoundHalfEven(
                   <<m.value[1] * unit_conversions(m.unit)[1],
                     m.value[2] * unit_conversions(m.unit)[2]>>)),
               start_pos |-> CharLenUpTo(text, s - 1),
               end_pos |-> CharLenUpTo(text, m.e - 1)])
    ELSE None

\* _extract_all_times, lines 91-94: pattern.finditer(text) from position p
\* on, each match parsed
RECURSIVE FindIter(_, _, _, _)
FindIter(k, text, t, p) ==
    Only({IF hits = {} THEN <<>>
          ELSE Only({Only({_parse_time_match(text, s, m) \o FindIter(k, text, t, m.e) :
                           m \in {time_patterns(k, t, s)}}) :
                     s \in {Min(hits)}}) :
          hits \in {{q \in p..Len(t) : time_patterns(k, t, q).e > 0}}})

RECURSIVE AllPatterns(_, _, _)
AllPatterns(k, text, t) ==
    IF k > NumParserPatterns THEN <<>>
    ELSE FindIter(k, text, t, 1) \o AllPatterns(k + 1, text, t)

\* sorted(extractions, key=lambda x: x['start_pos']): a stable sort
RECURSIVE SortedByStartPos(_)
SortedByStartPos(extractions) ==
    IF extractions = <<>> THEN <<>>
    ELSE Only({Only({SelectSeq(rest, LAMBDA x : x.start_pos <= last.start_pos)
                        \o <<last>>
                        \o SelectSeq(rest, LAMBDA x : x.start_pos > last.start_pos) :
                     rest \in {SortedByStartPos(SubSeq(extractions, 1, n - 1))},
                     last \in {extractions[n]}}) :
               n \in {Len(extractions)}})

\* _extract_all_times, lines 97-102: the first extraction of every phrase
UniquePhrases(sorted) ==
    SelectSeq([i \in 1..Len(sorted) |->
                  IF \E j \in 1..(i - 1) : sorted[j].phrase = sorted[i].phrase
                  THEN None ELSE Some(sorted[i])],
              LAMBDA x : x # None)

_extract_all_times(text) ==
    Only({[i \in 1..Len(unique) |-> unique[i][1]] :
          unique \in {UniquePhrases(SortedByStartPos(AllPatterns(1, text, LowerText(text))))}})

ParsedStep(text, duration_minutes, original_text, confidence, time_phrases) ==
    [text |-> text, duration_minutes |-> duration_minutes,
     original_text |-> original_text, confidence |-> confidence,
     time_phrases |-> time_phrases]

\* original_text[context_start:context_end].strip(): the tokens that lie
\* between the two character positions
ContextOf(original_text, context_start, context_end) ==
    Strip(SubSeqAt(original_text,
                   {i \in 1..Len(original_text) :
                       /\ CharLenUpTo(original_text, i - 1) >= context_start
                       /\ CharLenUpTo(original_text, i) <= context_end}))

\* _split_step_by_times: one step per time mention, its text the context of
\* the mention
_split_step_by_times(original_text, time_extractions) ==
    [i \in 1..Len(time_extractions) |->
        ParsedStep(ContextOf(original_text,
                             Max(0, time_extractions[i].start_pos - CONTEXT_CHARS),
                             IF CharLen(original_text)
                                    < time_extractions[i].end_pos + CONTEXT_CHARS
                             THEN CharLen(original_text)
                             ELSE time_extractions[i].end_pos + CONTEXT_CHARS),
                   time_extractions[i].minutes, original_text, "extracted",
                   <<time_extractions[i].phrase>>)]

\* parse_step_times; predicted_time is the value of self.predictor.predict
parse_step_times(step_text, predicted_time) ==
    Only({Only({IF time_extractions = <<>>
                THEN <<ParsedStep(original_text, predicted_time, original_text,
                                  "predicted", <<>>)>>
                ELSE IF Len(time_extractions) = 1
                THEN <<ParsedStep(original_text, time_extractions[1].minutes,
                                  original_text, "extracted",
                                  <<time_extractions[1].phrase>>)>>
                ELSE _split_step_by_times(original_text, time_extractions) :
                time_extractions \in {_extract_all_times(original_text)}}) :
          original_text \in {Strip(step_text)}})

\* ---- extract_time_from_text called on its own ----------------------------
\* Texts whose only duration is a negative number followed by a unit, with
\* and without a blank before the unit, alone and inside an instruction.
NegativeNumbers == {<<"5">>, <<"1", "5">>, <<"1", "2", "0">>}

NegativeDurations ==
    {<<"-">> \o n \o gap \o <<u>> :
        n \in NegativeNumbers, gap \in {<<>>, <<Blank>>}, u \in SampleUnits}

NegativeDurationTexts ==
    NegativeDurations \cup {Timed("cook", time) : time \in NegativeDurations}

\* "<qualifier> N <unit>" for every qualifier and every spelling of the
\* minute and hour units, inside an instruction
ApproxNumbers == {<<"5">>, <<"1", "5">>}
ApproxDuration(q, n, u) == Join(<<<<q>>, n, <<u>>>>)
ApproxDurationTexts ==
    {Timed("cook", ApproxDuration(q, n, u)) :
        q \in Qualifiers, n \in ApproxNumbers, u \in MinuteUnits \cup HourUnits}

\* "a-b <unit>" with a hyphen or an en dash, for every spelling of the minute
\* and hour units, inside an instruction
RangeLows == {<<"1">>, <<"5">>}
RangeHighs == {<<"2">>, <<"1", "5">>}
RangeDuration(a, h, b, u) == a \o <<h>> \o Join(<<b, <<u>>>>)
RangeDurationTexts ==
    {Timed("cook", RangeDuration(a, h, b, u)) :
        a \in RangeLows, h \in Hyphens, b \in RangeHighs, u \in MinuteUnits \cup HourUnits}

\* "N <unit>" for every spelling of the second unit, inside an instruction
SecondNumbers == {<<"0">>, <<"5">>, <<"9", "0">>, <<"1", "2", "0">>}
SecondDuration(n, u) == Join(<<n, <<u>>>>)
SecondDurationTexts ==
    {Timed("cook", SecondDuration(n, u)) : n \in SecondNumbers, u \in SecondUnits}

\* Instructions with exactly one duration phrase and no transition marker:
\* a plain "N <unit>", a range "a-b <unit>", a compound "H <hour> M <minute>"
AllUnits == MinuteUnits \cup HourUnits \cup SecondUnits
PlainDurationTexts ==
    {Timed("cook", Join(<<n, <<u>>>>)) : n \in ApproxNumbers, u \in AllUnits}
CompoundDurationTexts ==
    {Timed("cook", Join(<<<<"1">>, <<hu>>, <<"1", "5">>, <<mu>>>>)) :
        hu \in HourUnits, mu \in MinuteUnits}
SingleDurationTexts ==
    PlainDurationTexts \cup RangeDurationTexts \cup CompoundDurationTexts

ExtractTexts ==
    Instructions \cup NegativeDurationTexts \cup ApproxDurationTexts
    \cup RangeDurationTexts \cup SecondDurationTexts \cup SingleDurationTexts

CallExtractTimeFromText ==
    /\ xcall.op = "none"
    /\ \E text \in ExtractTexts :
          xcall' = [op |-> "extract_time_from_text",
                    text |-> text,
                    result |-> extract_time_from_text(text)]
    /\ UNCHANGED <<tlvars, valvars, orgvars, splitvars, tvcall, tl_fault, gcall, b2vars>>

\* The texts given to parse_step_times: without a duration, with one
\* duration phrase, with two (equal or different) in two clauses, one with a
\* fraction, and one longer than the context of a mention
ParserMentions ==
    {<<"5", Blank, "minutes">>, <<"1", "5", Blank, "minutes">>,
     <<"9", "0", Blank, "seconds">>, <<"1", "-", "2", Blank, "hours">>,
     <<"about", Blank, "5", Blank, "minutes">>}
ParserLinks == {<<",", Blank, "then", Blank>>, <<".", Blank>>}
NoMentionTexts == {<<"chop">>, <<"bake", Blank, "until", Blank, "done">>}
OneMentionTexts == {Timed("cook", d) : d \in ParserMentions}
TwoMentionTexts ==
    {Timed("cook", d1) \o link \o Timed("bake", d2) :
        d1 \in ParserMentions, link \in ParserLinks, d2 \in ParserMentions}
LongText ==
    [i \in 1..22 |-> IF i % 2 = 1 THEN "chop" ELSE Blank]
    \o <<"5", Blank, "minutes", Blank, "and", Blank, "1", "5", Blank, "minutes">>
ParseTexts ==
    ExtractTexts \cup NoMentionTexts \cup OneMentionTexts \cup TwoMentionTexts
    \cup {Timed("cook", <<"1", "/", "2", Blank, "hour">>), LongText}
PredictedTimes == {1, FALLBACK_PREDICTION}

CallParseStepTimes ==
    /\ xcall.op = "none"
    /\ \E step_text \in ParseTexts : \E predicted_time \in PredictedTimes :
          xcall' = [op |-> "parse_step_times",
                    text |-> step_text,
                    predicted_time |-> predicted_time,
                    result |-> parse_step_times(step_text, predicted_time)]
    /\ UNCHANGED <<tlvars, valvars, orgvars, splitvars, tvcall, tl_fault, gcall, b2vars>>

CallSplitStep ==
    /\ xcall.op = "none"
    /\ \E step_text \in Instructions :
          xcall' = [op |-> "split_step",
                    text |-> step_text,
                    result |-> split_step(step_text)]
    /\ UNCHANGED <<tlvars, valvars, orgvars, splitvars, tvcall, tl_fault, gcall, b2vars>>

CallHasMultipleTimeInstructions ==
    /\ xcall.op = "none"
    /\ \E step_text \in ExtractTexts :
          xcall' = [op |-> "has_multiple_time_instructions",
                    text |-> step_text,
                    result |-> has_multiple_time_instructions(step_text)]
    /\ UNCHANGED <<tlvars, valvars, orgvars, splitvars, tvcall, tl_fault, gcall, b2vars>>

ExtractInit ==
    /\ TimelineIdle
    /\ ValidationIdle
    /\ OrganizeIdle
    /\ SplitIdle
    /\ AuxIdle

ExtractNext ==
    \/ CallExtractTimeFromText
    \/ CallHasMultipleTimeInstructions
    \/ CallParseStepTimes
    \/ CallSplitStep

SpecExtract == ExtractInit /\ [][ExtractNext]_vars

\* ------------------------------------------------------------------------
\* Properties of the recipe service
\* ------------------------------------------------------------------------
\* C9: whenever organize_recipes rejects a request because the time budget is
\* insufficient or because the computed earliest start time is not in the
\* future, the timing error carries a required start time, and for the
\* insufficient-budget case that value equals target minus time_needed.
C9_TimingErrorCarriesRequiredStart ==
    (ocall.outcome = "raised" /\ ocall.site \in {"feasibility", "timeline"}) =>
        /\ ocall.exception = "ImpossibleTimingException"
        /\ ocall.required_start_time # None
        /\ ocall.site = "feasibility" =>
              ocall.required_start_time[1] = ocall.target_time - ocall.time_needed

\* ------------------------------------------------------------------------
\* Properties of the validation service
\* ------------------------------------------------------------------------
SeqToSet(q) == {q[i] : i \in 1..Len(q)}

\* C6: if some selected recipe's sum of step durations exceeds the minutes
\* available between now and target, validate_timeline_feasibility returns
\* feasible = false and reports a shortage greater than 0, whatever the
\* recipe's total_time, prep_time and cook_time are.
C6_StepSumOverBudgetIsInfeasible ==
    vcall.op = "validate_timeline_feasibility" =>
        ((\E i \in 1..Len(vcall.recipes) :
             SumSeq(vcall.recipes[i].step_times) > vcall.target_time - vcall.current_time)
         => /\ vcall.result.feasible = FALSE
            /\ vcall.result.errors # <<>>
            /\ \A e \in SeqToSet(vcall.result.errors) : e.shortage > 0)

\* The per-recipe value as the claim states it: a field is set when it is not
\* None, a set value of 0 included.
C7_PerRecipeValue(recipe) ==
    IF recipe.total_time # None THEN recipe.total_time[1]
    ELSE IF recipe.prep_time # None /\ recipe.cook_time # None
    THEN recipe.prep_time[1] + recipe.cook_time[1]
    ELSE SumSeq(recipe.step_times)

\* C7: estimate_total_time_needed returns the maximum over the recipes of the
\* recipe's total_time when set, otherwise prep_time + cook_time when both are
\* set (a set value of 0 counts as set), otherwise the sum of its step
\* durations.
C7_EstimateIsMaxOfPerRecipeValue ==
    (vcall.op = "estimate_total_time_needed" /\ vcall.recipes # <<>>) =>
        /\ \E i \in 1..Len(vcall.recipes) :
              vcall.result = C7_PerRecipeValue(vcall.recipes[i])
        /\ \A i \in 1..Len(vcall.recipes) :
              vcall.result >= C7_PerRecipeValue(vcall.recipes[i])

\* C8: validate_timeline_feasibility yields exactly one of three outcomes:
\* infeasible with one error and no warning iff time_needed > time_available;
\* feasible with the tightness warning (and no error) iff time_needed <=
\* time_available and time_needed > 0.8 * time_available; feasible with no
\* error and no warning otherwise.
C8_FeasibilityOutcomes ==
    vcall.op = "validate_timeline_feasibility" =>
        LET r == vcall.result
            needed == r.time_needed
            available == vcall.target_time - vcall.current_time
            infeasible == /\ r.feasible = FALSE
                          /\ Len(r.errors) = 1
                          /\ r.warnings = <<>>
            tight == /\ r.feasible = TRUE
                     /\ r.errors = <<>>
                     /\ r.warnings = <<WARN_TIGHT_TIMELINE>>
            clean == /\ r.feasible = TRUE
                     /\ r.errors = <<>>
                     /\ r.warnings = <<>>
        IN /\ infeasible <=> needed > available
           /\ tight <=> (needed <= available /\ 10 * needed > 8 * available)
           /\ clean <=> (needed <= available /\ 10 * needed <= 8 * available)

\* Each of the three outcomes is produced, the boundary needed = available
\* among them.
C8_Witness ==
    /\ vcall.op = "validate_timeline_feasibility"
    /\ Len(vcall.recipes) = 2
    /\ vcall.result.time_needed = 2
    /\ vcall.target_time - vcall.current_time = 2
    /\ vcall.result.warnings # <<>>

\* C10: validate_target_time returns valid = false with an error iff
\* target <= now; when target > now it returns valid = true, with the
\* tight-timing warning iff the gap is below 10 minutes and the far-away
\* warning iff the gap exceeds 24 hours.
C10_TargetTimeOutcomes ==
    vcall.op = "validate_target_time" =>
        LET r == vcall.result
            gap == vcall.target_time - vcall.current_time
        IN /\ (r.valid = FALSE /\ r.errors # <<>>) <=> vcall.target_time <= vcall.current_time
           /\ vcall.target_time > vcall.current_time =>
                 /\ r.valid = TRUE
                 /\ r.errors = <<>>
                 /\ WARN_TIGHT_TIMING \in SeqToSet(r.warnings) <=> gap < 10
                 /\ WARN_FAR_AWAY \in SeqToSet(r.warnings) <=> gap > 1440

C10_Witness ==
    /\ vcall.op = "validate_target_time"
    /\ vcall.target_time - vcall.current_time = 9
    /\ vcall.result.valid = TRUE
    /\ vcall.result.warnings = <<WARN_TIGHT_TIMING>>

\* ------------------------------------------------------------------------
\* Properties of the timeline builder
\* ------------------------------------------------------------------------
WellFormed(recipe) ==
    /\ recipe.steps # <<>>
    /\ Len(recipe.steps) = Len(recipe.step_times)

Mismatched(recipe) == Len(recipe.steps) # Len(recipe.step_times)

PlanStepsOf(plan, name, k) ==
    {j \in 1..Len(plan) : plan[j].recipe_name = name /\ plan[j].step_number = k}

\* C1: for every recipe passed to generate_timeline with a non-empty,
\* equal-length steps/durations pair, the returned plan contains that recipe's
\* highest-numbered step, and that step's end_time equals the target.
C1_LastStepEndsAtTarget ==
    tl_pc = "returned" =>
        \A i \in 1..Len(tl_recipes) :
            WellFormed(tl_recipes[i]) =>
                LET last == PlanStepsOf(tl_plan, tl_recipes[i].name,
                                        Len(tl_recipes[i].steps))
                IN /\ last # {}
                   /\ \A j \in last : tl_plan[j].end_time = tl_target

C1_Witness ==
    /\ tl_pc = "returned"
    /\ Len(tl_recipes) = 2
    /\ \A i \in 1..2 : WellFormed(tl_recipes[i])
    /\ Len(tl_recipes[1].steps) = 2
    /\ SumSeq(tl_recipes[1].step_times) = 2
    /\ SumSeq(tl_recipes[2].step_times) = 1

\* C2: in the plan returned by generate_timeline every entry starts no later
\* than the entry after it.
C2_PlanSortedByStart ==
    tl_pc = "returned" =>
        \A j \in 1..(Len(tl_plan) - 1) :
            tl_plan[j].start_time <= tl_plan[j + 1].start_time

\* A build in which the concatenation of the recipes' steps is not already in
\* start-time order, so the sort had to move a step.
C2_Witness ==
    /\ tl_pc = "returned"
    /\ Len(tl_plan) >= 3
    /\ \E j \in 1..(Len(all_steps) - 1) :
           all_steps[j].start_time > all_steps[j + 1].start_time

\* C3: within one recipe's timed steps, every step lasts its duration
\* (end_time - start_time = duration), every step but the last ends when the
\* next one starts, and the first step starts at target minus the sum of the
\* recipe's durations.
C3_BackwardChain ==
    tl_pc = "returned" =>
        \A i \in 1..Len(tl_recipes) :
            WellFormed(tl_recipes[i]) =>
                LET r == tl_recipes[i]
                    n == Len(r.steps)
                    At(k) == tl_plan[CHOOSE j \in PlanStepsOf(tl_plan, r.name, k) : TRUE]
                IN /\ \A k \in 1..n : Cardinality(PlanStepsOf(tl_plan, r.name, k)) = 1
                   /\ \A k \in 1..n :
                         /\ At(k).duration = r.step_times[k]
                         /\ At(k).end_time - At(k).start_time = r.step_times[k]
                   /\ \A k \in 1..(n - 1) : At(k).end_time = At(k + 1).start_time
                   /\ At(1).start_time = tl_target - SumSeq(r.step_times)

C3_Witness ==
    /\ tl_pc = "returned"
    /\ \E i \in 1..Len(tl_recipes) :
          /\ WellFormed(tl_recipes[i])
          /\ Len(tl_recipes[i].steps) = 2
          /\ \A k \in 1..2 : tl_recipes[i].step_times[k] > 0

\* C4: when a recipe given to the build has steps and durations of different
\* lengths, the build fails with an error and returns no plan.
C4_MismatchFailsFast ==
    (\E i \in 1..Len(tl_recipes) : Mismatched(tl_recipes[i])) => tl_pc # "returned"


\* ------------------------------------------------------------------------
\* Properties of the step splitter
\* ------------------------------------------------------------------------
\* C5: split_recipe_steps returns two lists of equal length, one text and
\* one duration per resulting step, and every duration is an integer of at
\* least one minute, also when the step text itself states "0 minutes".
C5_SplitDurationsAtLeastOne ==
    sp_pc = "returned" =>
        /\ Len(new_steps) = Len(new_step_times)
        /\ \A i \in 1..Len(new_step_times) : new_step_times[i] >= MIN_STEP_TIME

\* ------------------------------------------------------------------------
\* Properties of validate_timeline
\* ------------------------------------------------------------------------
EarliestStart(steps) == Min({steps[i].start_time : i \in 1..Len(steps)})

WarningsOf(issues) ==
    SelectSeq(issues, LAMBDA issue : issue.type = "overlapping_active_steps")

\* C11: for a non-empty plan validate_timeline returns valid = false exactly
\* when the earliest start_time of the steps is at or before the current
\* time; overlap warnings alone never make the result invalid, and an empty
\* plan is always valid.
C11_ValidIffStartsInFuture ==
    tvcall.op = "validate_timeline" =>
        /\ tvcall.steps = <<>> => tvcall.result.valid
        /\ tvcall.steps # <<>> =>
              (~tvcall.result.valid <=>
                  EarliestStart(tvcall.steps) <= tvcall.current_time)

\* A plan that starts in the future and has an overlap warning was validated.
C11_Witness ==
    /\ tvcall.op = "validate_timeline"
    /\ tvcall.steps # <<>>
    /\ EarliestStart(tvcall.steps) > tvcall.current_time
    /\ WarningsOf(tvcall.result.issues) # <<>>
    /\ tvcall.result.valid

\* The pairs i < j of plan steps that the overlap rule is about.
OverlappingPairs(steps) ==
    {pair \in (1..Len(steps)) \X (1..Len(steps)) :
        /\ pair[1] < pair[2]
        /\ steps[pair[1]].recipe_name # steps[pair[2]].recipe_name
        /\ steps[pair[1]].is_cooking /\ steps[pair[2]].is_cooking
        /\ ~steps[pair[1]].can_multitask /\ ~steps[pair[2]].can_multitask
        /\ steps[pair[1]].start_time < steps[pair[2]].end_time
        /\ steps[pair[2]].start_time < steps[pair[1]].end_time}

\* C12: validate_timeline emits one overlapping-active-steps warning for
\* exactly the unordered pairs of plan steps of different recipes that are
\* both cooking, both unable to multitask and overlap in time (start1 < end2
\* and start2 < end1); same-recipe pairs and pairs with a multitask-capable
\* step get no warning.
C12_OverlapWarningsExactlyForActivePairs ==
    tvcall.op = "validate_timeline" =>
        LET warnings == WarningsOf(tvcall.result.issues)
            pairs == OverlappingPairs(tvcall.steps)
        IN /\ Len(warnings) = Cardinality(pairs)
           /\ \A a \in PlanNames, b \in PlanNames :
                 Cardinality({w \in 1..Len(warnings) :
                                 warnings[w].recipe1 = a /\ warnings[w].recipe2 = b})
                 = Cardinality({pair \in pairs :
                                 /\ tvcall.steps[pair[1]].recipe_name = a
                                 /\ tvcall.steps[pair[2]].recipe_name = b})

\* A plan with an overlapping pair of active cooking steps of two recipes
\* was validated and got its warning.
C12_Witness ==
    /\ tvcall.op = "validate_timeline"
    /\ OverlappingPairs(tvcall.steps) # {}
    /\ WarningsOf(tvcall.result.issues) # <<>>

\* ------------------------------------------------------------------------
\* Properties of organize_recipes: the selection
\* ------------------------------------------------------------------------
\* The requested names that the store has no recipe for.
UnknownNames(names, rs) ==
    {i \in 1..Len(names) : ~InRecipeDict(rs, names[i])}

\* C13: organize_recipes fails with a selection error whenever a requested
\* name is unknown to the store, also when other requested names are known
\* and valid; it never returns a plan that leaves a requested recipe out.
C13_UnknownNameIsSelectionError ==
    (ocall.outcome # "none" /\ UnknownNames(ocall.names, recipes) # {}) =>
        /\ ocall.outcome = "raised"
        /\ ocall.exception = "InvalidRecipeException"

C15_ValidationFailuresAggregated ==
    (/\ ocall.outcome = "raised"
     /\ ocall.site = "selection"
     /\ ocall.target_time <= now) =>
        \E i \in 1..Len(ocall.errors) : ocall.errors[i].msg = ERR_TARGET_PAST
\* ------------------------------------------------------------------------
\* Properties of organize_recipes: the try block
\* ------------------------------------------------------------------------
\* The raise statements of organize_recipes before the try block.
EarlierSites == {"selection", "target_time", "feasibility"}

\* C16: a fault raised while the timeline is built or validated reaches the
\* caller as exactly one domain error: a MealTimeException is re-raised
\* unchanged, any other fault is wrapped once in a TimelineException.
C16_TimelineFaultsBecomeOneDomainError ==
    /\ (ocall.outcome = "raised" /\ ocall.site \notin EarlierSites) =>
          /\ ocall.exception \in MealTimeExceptions
          /\ ocall.site = "timeline" =>
                /\ ocall.exception = "ImpossibleTimingException"
                /\ \A i \in 1..Len(ocall.errors) : ocall.errors[i].type = "past_start_time"
          /\ ocall.site # "timeline" =>
                /\ ocall.exception = "TimelineException"
                /\ ocall.errors = <<tl_fault>>
                /\ tl_fault \notin MealTimeExceptions
    /\ (ocall.outcome # "none" /\ tl_fault # "none") =>
          /\ ocall.outcome = "raised"
          /\ ocall.site \in EarlierSites \cup {"except"}

\* generate_timeline raised a fault that is not a MealTimeException and the
\* caller got a TimelineException.
C16_Witness ==
    /\ ocall.outcome = "raised"
    /\ ocall.site = "except"
    /\ tl_fault = "ValueError"
    /\ ocall.exception = "TimelineException"
\* C17: a selected recipe without step durations, or with a durations list
\* whose length differs from its steps list, is not rejected as invalid
\* before its durations are filled: organize_recipes fills them and the plan
\* it returns holds that recipe's steps.
C17_DurationsFilledBeforeRejection ==
    /\ (ocall.outcome = "raised" /\ ocall.site = "selection") =>
          \A i \in 1..Len(ocall.errors) : ocall.errors[i].msg # ISSUE_TIMES_MISMATCH
    /\ ocall.outcome = "returned" =>
          \A i \in 1..Len(ocall.names) :
             (/\ InRecipeDict(recipes, ocall.names[i])
              /\ RecipeDictGet(recipes, ocall.names[i]).steps # <<>>) =>
                /\ ~NeedsStepTimes(RecipeDictGet(recipes, ocall.names[i]))
                /\ \E k \in 1..Len(ocall.plan) :
                      ocall.plan[k].recipe_name = ocall.names[i]
\* C18: after generate_missing_step_times every recipe of the store has a
\* step_times list as long as its steps list, and every step time is
\* greater than 0, whatever step_times the recipes had before the call.
C18_StoreTimesCompleteAndPositive ==
    gcall.op = "generate_missing_step_times" =>
        \A i \in 1..Len(recipes) :
            /\ Len(recipes[i].step_times) = Len(recipes[i].steps)
            /\ \A k \in 1..Len(recipes[i].step_times) : recipes[i].step_times[k] > 0
\* ------------------------------------------------------------------------
\* Properties of concurrent timeline builds
\* ------------------------------------------------------------------------
\* C19: two generate_timeline calls, each with its own recipes and target,
\* interleaved in any order on one TimelineService, each return the plan that
\* the call returns when it runs alone, and no step of either call changes
\* the input recipes.
C19_InterleavedBuildsAreIndependent ==
    /\ [](/\ tl_pc = "returned" => tl_plan = generate_timeline(tl_recipes, tl_target)
          /\ b2_pc = "returned" => b2_plan = generate_timeline(b2_recipes, b2_target))
    /\ [][/\ tl_recipes' = tl_recipes /\ tl_target' = tl_target
          /\ b2_recipes' = b2_recipes /\ b2_target' = b2_target]_vars

\* Both calls are inside their loops at the same time, each with steps of
\* its own in its accumulator.
C19_Witness ==
    /\ tl_pc = "loop" /\ b2_pc = "loop"
    /\ all_steps # <<>> /\ b2_all_steps # <<>>
    /\ all_steps # b2_all_steps

\* ------------------------------------------------------------------------
\* Properties of extract_time_from_text
\* ------------------------------------------------------------------------
\* C20: extract_time_from_text returns no mention (None, None) for every
\* instruction whose only duration is a negative number followed by a time
\* unit, whatever the number of digits ("-5 minutes", "-15 minutes",
\* "-120 minutes").
C20_NegativeDurationIsNoMention ==
    (xcall.op = "extract_time_from_text" /\ xcall.text \in NegativeDurationTexts) =>
        xcall.result = NoTime

\* the whole number written by the digits n
NumberOf(n) == IntOf(n, 1, Len(n) + 1)

\* C21: for "<qualifier> N <unit>" with a qualifier among about, around,
\* approximately and roughly and a whole number N, extract_time_from_text
\* returns N minutes for every spelling of the minute unit and N * 60 minutes
\* for every spelling of the hour unit.
C21_ApproximateMentionConverted ==
    \A q \in Qualifiers : \A n \in ApproxNumbers : \A u \in MinuteUnits \cup HourUnits :
        (/\ xcall.op = "extract_time_from_text"
         /\ xcall.text = Timed("cook", ApproxDuration(q, n, u))) =>
            xcall.result =
                Found(IF u \in HourUnits THEN NumberOf(n) * 60 ELSE NumberOf(n),
                      ApproxDuration(q, n, u))

\* C22 as stated: for a range "a-b <unit>" of whole numbers,
\* extract_time_from_text truncates the average (a + b) / 2 to an integer and
\* then converts that integer to minutes (times 60 for an hour unit).
C22_RangeAverageTruncatedThenConverted ==
    \A a \in RangeLows : \A h \in Hyphens : \A b \in RangeHighs :
    \A u \in MinuteUnits \cup HourUnits :
        (/\ xcall.op = "extract_time_from_text"
         /\ xcall.text = Timed("cook", RangeDuration(a, h, b, u))) =>
            xcall.result =
                Found(((NumberOf(a) + NumberOf(b)) \div 2)
                          * (IF u \in HourUnits THEN 60 ELSE 1),
                      RangeDuration(a, h, b, u))

\* C22 amended: for a range "a-b <unit>" of whole numbers,
\* extract_time_from_text converts the average (a + b) / 2 to minutes (times
\* 60 for an hour unit) and then truncates the result to an integer.
C22_RangeAverageConvertedThenTruncated ==
    \A a \in RangeLows : \A h \in Hyphens : \A b \in RangeHighs :
    \A u \in MinuteUnits \cup HourUnits :
        (/\ xcall.op = "extract_time_from_text"
         /\ xcall.text = Timed("cook", RangeDuration(a, h, b, u))) =>
            xcall.result =
                Found(((NumberOf(a) + NumberOf(b))
                          * (IF u \in HourUnits THEN 60 ELSE 1)) \div 2,
                      RangeDuration(a, h, b, u))

\* "cook for 1-2 hours" has been extracted as 90 minutes
C22_Witness ==
    /\ xcall.op = "extract_time_from_text"
    /\ xcall.text = Timed("cook", RangeDuration(<<"1">>, "-", <<"2">>, "hours"))
    /\ xcall.result = Found(90, RangeDuration(<<"1">>, "-", <<"2">>, "hours"))

\* C23: for a plain mention of N seconds with a whole number N,
\* extract_time_from_text returns N integer-divided by 60, raised to 1 minute
\* only when N > 0; a mention of 0 seconds is not raised to 1 minute.
C23_SecondsFlooredWithMinimumForPositive ==
    \A n \in SecondNumbers : \A u \in SecondUnits :
        (/\ xcall.op = "extract_time_from_text"
         /\ xcall.text = Timed("cook", SecondDuration(n, u))) =>
            xcall.result =
                Found(IF NumberOf(n) > 0 THEN Max(1, NumberOf(n) \div 60) ELSE 0,
                      SecondDuration(n, u))

\* C24: has_multiple_time_instructions returns false for every step text
\* that contains exactly one duration phrase (a plain "N unit", a range
\* "a-b unit" or a compound "H hour M minutes") and no transition marker.
C24_OneDurationIsNotMultiple ==
    (/\ xcall.op = "has_multiple_time_instructions"
     /\ xcall.text \in SingleDurationTexts) =>
        xcall.result = FALSE

\* C25: parse_step_times returns as many ParsedSteps as the text has duration
\* mentions, counted by position (two equal phrases are two mentions, one
\* range or one "about N unit" phrase is one mention), and one ParsedStep
\* when there is no mention; with exactly one mention the text of the single
\* ParsedStep is the whole instruction and its confidence is 'extracted'.
C25_OneParsedStepPerMention ==
    xcall.op = "parse_step_times" =>
        /\ xcall.text \in NoMentionTexts => Len(xcall.result) = 1
        /\ xcall.text \in OneMentionTexts =>
              /\ Len(xcall.result) = 1
              /\ xcall.result[1].text = xcall.text
              /\ xcall.result[1].confidence = "extracted"
        /\ xcall.text \in TwoMentionTexts => Len(xcall.result) = 2

\* the elements of names that occur in the set S, each once, in the order
\* of their first occurrence
FirstOccurrencesIn(names, S) ==
    SelectSeq([i \in 1..Len(names) |->
                  IF names[i] \in S /\ \A j \in 1..(i - 1) : names[j] # names[i]
                  THEN Some(names[i]) ELSE None],
              LAMBDA x : x # None)

\* C26: the 'recipes' field of the summary returned by get_cooking_summary /
\* get_timeline_summary lists the distinct recipe names of the plan in the
\* order in which the recipes were selected, for every selection.
C26_SummaryRecipesInSelectionOrder ==
    gcall.op = "get_cooking_summary" =>
        LET expected == FirstOccurrencesIn(
                gcall.names,
                {gcall.plan[i].recipe_name : i \in 1..Len(gcall.plan)})
        IN  gcall.summary.recipes = [i \in 1..Len(expected) |-> expected[i][1]]

\* C27: in split_step, when the text is flagged as multi-instruction and
\* splitting on transition markers yields at most one non-empty segment, the
\* text is split on sentence punctuation (period, semicolon) before any
\* comma fallback; a text that starts with "then" and holds two timed
\* sentences is returned as two steps.
C27_SentenceFallbackAfterMarkerSplit ==
    xcall.op = "split_step" =>
        LET step_text == Strip(xcall.text)
            sentences == StrippedNonEmpty(
                ReSplit(SENTENCE_SPLIT, step_text, 1, 1, FALSE, FALSE))
        IN  (/\ has_multiple_time_instructions(step_text)
             /\ Len(ConjunctionParts(step_text)) <= 1) =>
                xcall.result = StepsOfParts(step_text, CommaParts(step_text, sentences))

\* C28: if validate_timeline_feasibility reports feasible = true for a set
\* of recipes, a target and a current time, then the timeline built by
\* generate_timeline for the same recipes and target has its earliest
\* start_time strictly after that current time, so validate_timeline reports
\* no past_start_time error.
C28_FeasibleTimelineStartsInFuture ==
    (vcall.op = "feasibility_then_timeline" /\ vcall.result.feasible) =>
        /\ vcall.timeline_steps # <<>> =>
              EarliestStart(vcall.timeline_steps) > vcall.current_time
        /\ \A i \in 1..Len(vcall.timeline_validation.issues) :
              vcall.timeline_validation.issues[i].type # "past_start_time"

\* C29: when organize_recipes raises for the target time, for the
\* feasibility or for a start in the past, the recipes held by the service
\* and those written to storage are the same as before the call: no
\* step_times has been changed, those of recipes not selected included.
C29_RaisingOrganizeLeavesStoreUnchanged ==
    [][(/\ ocall.outcome = "none"
        /\ ocall'.outcome = "raised"
        /\ ocall'.site \in {"target_time", "feasibility", "timeline"}) =>
           (recipes' = recipes /\ storage' = storage)]_vars

\* C30: from a store whose names are pairwise distinct ignoring case, every
\* sequence of add_recipe, update_recipe, delete_recipe and
\* import_recipe_from_url calls, returning or raising, leaves the names of
\* the recipes held and of the recipes saved pairwise distinct ignoring case.
C30_StoredNamesDistinctIgnoringCase ==
    DistinctIgnoringCase(recipes) /\ DistinctIgnoringCase(storage)

\* An import whose title was taken twice over: the store holds the title in
\* another case and the first renamed name, and the import was renamed again.
C30_Witness ==
    /\ gcall.op = "import_recipe_from_url"
    /\ gcall.success
    /\ gcall.name_changed
    /\ gcall.counter > 2
    /\ \E i \in 1..Len(recipes) :
          /\ recipes[i].name # gcall.original_name
          /\ Lower(recipes[i].name) = Lower(gcall.original_name)
    /\ Len(recipes) = MaxStoreSize

====
